---- MODULE Spec2Model ----
(***************************************************************************)
(* A model of fpl::AsyncLoader (async_loader.cpp): a pending queue and a   *)
(* completed queue guarded by one mutex, a counting semaphore that wakes   *)
(* the worker, one worker thread running LoaderWorker, and the caller      *)
(* thread that queues jobs, starts and stops loading, drains the completed *)
(* queue with TryFinalize and finally destroys the loader.                 *)
(*                                                                         *)
(* Every Lock()/LockReturn() of the source is two steps: the thread takes  *)
(* the mutex, then runs the lambda and releases the mutex.  Load() and     *)
(* Finalize() are user code: each is a state of the calling thread that    *)
(* lasts from the call to the return.                                      *)
(*                                                                         *)
(* motive::RangeT (range.h) is modelled as operators on records with the   *)
(* fields start_ and end_, applied to arguments drawn from a bounded set   *)
(* of scalars by the specification SpecRange.                              *)
(***************************************************************************)
EXTENDS Integers, Sequences, FiniteSets, TLC

\* ------------------------------------------------------------------ bounds
MaxJobs == 2
MaxStarts == 2
MaxStops == 1
MaxScalar == 2
MaxLen == 2
MaxCoeff == 2
MaxWidth == 3

\* ------------------------------------------------------ values of the code
nullptr == -1
bookend == 0
MainThread == 0

kBookendFileName == <<"bookend">>

Resources == 1..MaxJobs
AllResources == Resources \cup {bookend}
Workers == 1..MaxStarts
Threads == Workers \cup {MainThread}

VARIABLES
    queue_,          \* std::vector<AsyncResource *>: the pending queue
    done_,           \* std::vector<AsyncResource *>: the completed queue
    mutex_,          \* SDL_mutex *: [live, owner]
    job_semaphore_,  \* SDL_semaphore *: [live, value]
    worker_thread_,  \* SDL_Thread *: nullptr or the thread StartLoading made
    filename,        \* AsyncResource::filename_ of every resource
    pc,              \* where each thread is in its code
    res,             \* the local `res` of each thread (QueueJob's argument too)
    qj_return,       \* where QueueJob returns to on the caller thread
    tf_result,       \* what TryFinalize returned, until the caller has read it
    tf_check,        \* history: lengths of the two queues at that return,
                     \* and what the call before returned (prev)
    submitted,       \* history: resources in the order they were pushed
    load_log,        \* history: calls of and returns from Load()
    finalize_log,    \* history: calls of and returns from Finalize()
    finalized,       \* history: resources in the order they left done_
    stops,           \* number of StopLoadingWhenComplete calls by the user
    range_args,      \* RangeT: the arguments of the call, [a, b, x]
    range_ret,       \* RangeT: the function called and what it returned
    curve_args,      \* curves: the curve and the arguments of the call
    curve_ret,       \* curves: the function called and what it returned
    game,            \* PieNoonGame: the members the state machine reads
    gui_state        \* gui InternalState: a call of NextInteractiveElement

vars == <<queue_, done_, mutex_, job_semaphore_, worker_thread_, filename, pc,
          res, qj_return, tf_result, tf_check, submitted, load_log,
          finalize_log, finalized, stops, range_args, range_ret,
          curve_args, curve_ret, game, gui_state>>

\* the state of the game and of its gui
apps == <<game, gui_state>>

\* no game object has been made and no gui function is being called
NoGame == [pc |-> "none"]
NoGuiCall == [pc |-> "none"]

\* the state of the curves
curves == <<curve_args, curve_ret>>

\* the state of the other components, which the loader leaves alone
elsewhere == <<range_args, range_ret, curve_args, curve_ret, apps>>

shared == <<queue_, done_, mutex_, job_semaphore_, worker_thread_>>
history == <<submitted, load_log, finalize_log, finalized>>

\* ----------------------------------------------------------------- helpers
IsBookend(r) == filename[r] = kBookendFileName

Event(e, r, t) == [ev |-> e, res |-> r, thread |-> t]

Range(s) == {s[i] : i \in 1..Len(s)}

IsPrefix(s, t) == Len(s) <= Len(t) /\ \A i \in 1..Len(s) : s[i] = t[i]

Calls(log) == SelectSeq(log, LAMBDA e : e.ev = "call")
Returns(log) == SelectSeq(log, LAMBDA e : e.ev = "ret")
ResOf(log) == [i \in 1..Len(log) |-> log[i].res]

LiveWorkers == {w \in Workers : pc[w] \notin {"unborn", "exited"}}

\* SDL_LockMutex / SDL_UnlockMutex as used by Lock() and LockReturn()
LockMutex(t) ==
    /\ mutex_.live
    /\ mutex_.owner = nullptr
    /\ mutex_' = [mutex_ EXCEPT !.owner = t]

UnlockMutex(t) ==
    /\ mutex_.owner = t
    /\ mutex_' = [mutex_ EXCEPT !.owner = nullptr]

\* ------------------------------------------------------- motive::RangeT
\* the scalars T ranges over
Scalars == -MaxScalar..MaxScalar

\* RangeT(const T start, const T end)
RangeT(start, end) == [start_ |-> start, end_ |-> end]

Ranges == {RangeT(s, e) : s, e \in Scalars}

\* std::min, std::max
Min(p, q) == IF q < p THEN q ELSE p
Max(p, q) == IF p < q THEN q ELSE p

\* bool Valid() const { return start_ <= end_; }
Valid(r) == r.start_ <= r.end_

\* T Length() const { return end_ - start_; }
Length(r) == r.end_ - r.start_

\* mathfu::Clamp(x, lower, upper): max(lower, min(x, upper))
mathfu_Clamp(x, lower, upper) == Max(lower, Min(x, upper))

\* mutant: Clamp takes the bounds the wrong way round
ClampSwapped(r, x) == mathfu_Clamp(x, r.end_, r.start_)

\* T Clamp(const T x) const { return mathfu::Clamp(x, start_, end_); }
Clamp(r, x) == mathfu_Clamp(x, r.start_, r.end_)

\* bool Contains(const T x) const { return start_ <= x && x <= end_; }
Contains(r, x) == r.start_ <= x /\ x <= r.end_

\* RangeT Invert() const { return RangeT(end_, start_); }
Invert(r) == RangeT(r.end_, r.start_)

\* mutant: the end of the intersection is taken from b's start
IntersectEndTypo(a, b) ==
    RangeT(Max(a.start_, b.start_), Min(a.end_, b.start_))

\* mutant: the intersection takes the lower start and the higher end
IntersectHull(a, b) ==
    RangeT(Min(a.start_, b.start_), Max(a.end_, b.end_))

\* RangeT(std::max(a.start_, b.start_), std::min(a.end_, b.end_))
Intersect(a, b) ==
    RangeT(Max(a.start_, b.start_), Min(a.end_, b.end_))

\* enum ModularDirection
ModularDirection == {"kDirectionClosest", "kDirectionFarthest",
                     "kDirectionPositive", "kDirectionNegative",
                     "kDirectionDirect"}

\* const T adjustment = x <= start_ ? length : x > end_ ? -length : 0.0f
ModularAdjustment(r, x) ==
    LET length == Length(r)
    IN  IF x <= r.start_ THEN length
        ELSE IF x > r.end_ THEN -length ELSE 0

\* assert(start_ < x + adjustment && x + adjustment <= end_)
ModularAdjustmentAssert(r, x) ==
    LET adjustment == ModularAdjustment(r, x)
    IN  r.start_ < x + adjustment /\ x + adjustment <= r.end_

\* T Normalize(T x) const { return x + ModularAdjustment(x); }
Normalize(r, x) == x + ModularAdjustment(r, x)

\* float ModDiffClose(T a, T b) const { return Normalize(b - a); }
ModDiffClose(r, a, b) == Normalize(r, b - a)

\* return close >= 0.0f ? close - length : close + length
ModDiffFar(r, a, b) ==
    LET length == Length(r)
        close == ModDiffClose(r, a, b)
    IN  IF close >= 0 THEN close - length ELSE close + length

\* return close >= 0.0f ? close : close + length
ModDiffPositive(r, a, b) ==
    LET length == Length(r)
        close == ModDiffClose(r, a, b)
    IN  IF close >= 0 THEN close ELSE close + length

\* return close >= 0.0f ? close - length : close
ModDiffNegative(r, a, b) ==
    LET length == Length(r)
        close == ModDiffClose(r, a, b)
    IN  IF close >= 0 THEN close - length ELSE close

\* switch (direction)
ModDiff(r, a, b, direction) ==
    CASE direction = "kDirectionClosest" -> ModDiffClose(r, a, b)
      [] direction = "kDirectionFarthest" -> ModDiffFar(r, a, b)
      [] direction = "kDirectionPositive" -> ModDiffPositive(r, a, b)
      [] direction = "kDirectionNegative" -> ModDiffNegative(r, a, b)
      [] direction = "kDirectionDirect" -> b - a

\* the two nested loops of IntersectRanges from (i, j) on; `intersections`
\* and `gaps` are the entries written so far, use_gaps is gaps != nullptr
RECURSIVE IntersectRangesFrom(_, _, _, _, _, _, _)
IntersectRangesFrom(a, b, use_gaps, i, j, intersections, gaps) ==
    IF i >= Len(a)
      THEN [intersections |-> intersections,
            gaps |-> gaps,
            num_intersections |-> Len(intersections),
            len_gaps |-> Len(gaps)]
    ELSE IF j >= Len(b)
      THEN IntersectRangesFrom(a, b, use_gaps, i + 1, 0, intersections, gaps)
    ELSE LET intersection == Intersect(a[i + 1], b[j + 1])
         IN  IF Valid(intersection)
               THEN IntersectRangesFrom(a, b, use_gaps, i, j + 1,
                        Append(intersections, intersection), gaps)
             ELSE IF use_gaps
               THEN IntersectRangesFrom(a, b, use_gaps, i, j + 1,
                        intersections, Append(gaps, Invert(intersection)))
             ELSE IntersectRangesFrom(a, b, use_gaps, i, j + 1,
                      intersections, gaps)

\* mutant: the outer loop runs over b and the inner loop over a
IntersectRangesInnerA(a, b, use_gaps) ==
    IntersectRangesFrom(b, a, use_gaps, 0, 0, <<>>, <<>>)

\* size_t IntersectRanges(a, len_a, b, len_b, intersections, gaps, len_gaps)
IntersectRanges(a, b, use_gaps) ==
    IntersectRangesFrom(a, b, use_gaps, 0, 0, <<>>, <<>>)

\* the arrays IntersectRanges is called with: up to MaxLen ranges, valid or
\* not, with both ends among two scalars
ArrayRanges == {RangeT(s, e) : s, e \in {0, MaxScalar}}
RangeArrays == UNION {[1..n -> ArrayRanges] : n \in 0..MaxLen}

\* the values of x the calls of Normalize are made with: up to one longest
\* Length() beyond either end of any range
WideScalars == (-3 * MaxScalar)..(3 * MaxScalar)

\* nothing has been called yet
NoCall == [op |-> "none", value |-> 0, range |-> RangeT(1, 0), flag |-> FALSE]

\* ------------------------------------------------------------------ curves
\* the coefficients are whole numbers, c_[i] the one of x^i
Coeffs == -MaxCoeff..MaxCoeff

\* QuadraticCurve(c2, c1, c0)
QuadraticCurve(c2, c1, c0) == [i \in 0..2 |-> IF i = 2 THEN c2
                                              ELSE IF i = 1 THEN c1 ELSE c0]

\* QuadraticCurve(): memset(c_, 0, sizeof(c_))
QuadraticCurveDefault == QuadraticCurve(0, 0, 0)

\* no curve function has been called yet
NoCurveCall == [op |-> "none"]

\* -------------------------------------------------------------------- Init
InitLoaderNamed(names) ==
    /\ queue_ = <<>>
    /\ done_ = <<>>
    /\ mutex_ = [live |-> TRUE, owner |-> nullptr]
    /\ job_semaphore_ = [live |-> TRUE, value |-> 0]
    /\ worker_thread_ = nullptr
    /\ filename = names
    /\ pc = [t \in Threads |-> IF t = MainThread THEN "idle" ELSE "unborn"]
    /\ res = [t \in Threads |-> nullptr]
    /\ qj_return = "idle"
    /\ tf_result = FALSE
    /\ tf_check = [pending |-> 0, completed |-> 0, prev |-> "none"]
    /\ submitted = <<>>
    /\ load_log = <<>>
    /\ finalize_log = <<>>
    /\ finalized = <<>>
    /\ stops = 0

\* the bookend's name is kBookendFileName, every user resource has its own
InitLoader ==
    InitLoaderNamed([r \in AllResources |->
                        IF r = bookend THEN kBookendFileName
                        ELSE <<"asset", r>>])

Init ==
    /\ InitLoader
    /\ range_args = [a |-> RangeT(1, 0), b |-> RangeT(1, 0), x |-> 0]
    /\ range_ret = NoCall
    /\ curve_args = [c |-> QuadraticCurveDefault, x_limits |-> RangeT(1, 0)]
    /\ curve_ret = NoCurveCall
    /\ game = NoGame
    /\ gui_state = NoGuiCall

\* ------------------------------------------------------ the caller thread
\* QueueJob(res): entry and SDL_LockMutex of Lock()
QueueJobEnter(r, back) ==
    /\ pc[MainThread] = "idle"
    /\ LockMutex(MainThread)
    /\ pc' = [pc EXCEPT ![MainThread] = "qj_locked"]
    /\ res' = [res EXCEPT ![MainThread] = r]
    /\ qj_return' = back
    /\ tf_check' = [tf_check EXCEPT !.prev = "none"]
    /\ UNCHANGED <<queue_, done_, job_semaphore_, worker_thread_, filename,
                   tf_result, history, elsewhere>>

\* a user job: the caller owns the resource and queues it once
QueueJob ==
    /\ \E r \in Resources \ Range(submitted) : QueueJobEnter(r, "idle")
    /\ UNCHANGED stops

\* mutant: the job is inserted at the front of the pending queue
QueueJobPushFront ==
    /\ pc[MainThread] = "qj_locked"
    /\ queue_' = <<res[MainThread]>> \o queue_
    /\ submitted' = Append(submitted, res[MainThread])
    /\ UnlockMutex(MainThread)
    /\ pc' = [pc EXCEPT ![MainThread] = "qj_post"]
    /\ UNCHANGED <<done_, job_semaphore_, worker_thread_, filename, res,
                   qj_return, tf_result, tf_check, load_log, finalize_log,
                   finalized, stops, elsewhere>>

\* queue_.push_back(res) under the lock
QueueJobPush ==
    /\ pc[MainThread] = "qj_locked"
    /\ queue_' = Append(queue_, res[MainThread])
    /\ submitted' = Append(submitted, res[MainThread])
    /\ UnlockMutex(MainThread)
    /\ pc' = [pc EXCEPT ![MainThread] = "qj_post"]
    /\ UNCHANGED <<done_, job_semaphore_, worker_thread_, filename, res,
                   qj_return, tf_result, tf_check, load_log, finalize_log,
                   finalized, stops, elsewhere>>

\* mutant: QueueJob returns without posting the semaphore
QueueJobPostDropped ==
    /\ pc[MainThread] = "qj_post"
    /\ job_semaphore_.live
    /\ pc' = [pc EXCEPT ![MainThread] = qj_return]
    /\ res' = [res EXCEPT ![MainThread] = nullptr]
    /\ UNCHANGED <<queue_, done_, mutex_, job_semaphore_, worker_thread_,
                   filename, qj_return, tf_result, tf_check, history, stops,
                   elsewhere>>

\* SDL_SemPost(job_semaphore_), then return
QueueJobPost ==
    /\ pc[MainThread] = "qj_post"
    /\ job_semaphore_.live
    /\ job_semaphore_' = [job_semaphore_ EXCEPT !.value = @ + 1]
    /\ pc' = [pc EXCEPT ![MainThread] = qj_return]
    /\ res' = [res EXCEPT ![MainThread] = nullptr]
    /\ UNCHANGED <<queue_, done_, mutex_, worker_thread_, filename, qj_return,
                   tf_result, tf_check, history, stops, elsewhere>>

\* StopLoadingWhenComplete(): QueueJob(&bookend)
StopLoadingWhenComplete ==
    /\ stops < MaxStops
    /\ QueueJobEnter(bookend, "idle")
    /\ stops' = stops + 1

\* StartLoading(): SDL_CreateThread; the caller keeps one worker at a time
StartLoading ==
    /\ pc[MainThread] = "idle"
    /\ LiveWorkers = {}
    /\ \E w \in Workers :
        /\ pc[w] = "unborn"
        /\ \A v \in Workers : v < w => pc[v] /= "unborn"
        /\ worker_thread_' = w
        /\ pc' = [pc EXCEPT ![w] = "top"]
    /\ tf_check' = [tf_check EXCEPT !.prev = "none"]
    /\ UNCHANGED <<queue_, done_, mutex_, job_semaphore_, filename, res,
                   qj_return, tf_result, history, stops, elsewhere>>

\* TryFinalize(): entry
TryFinalize ==
    /\ pc[MainThread] = "idle"
    /\ pc' = [pc EXCEPT ![MainThread] = "tf_top"]
    /\ UNCHANGED <<shared, filename, res, qj_return, tf_result, tf_check,
                   history, stops, elsewhere>>

\* LockReturn: SDL_LockMutex before reading done_
TryFinalizeLockDone ==
    /\ pc[MainThread] = "tf_top"
    /\ LockMutex(MainThread)
    /\ pc' = [pc EXCEPT ![MainThread] = "tf_peek"]
    /\ UNCHANGED <<queue_, done_, job_semaphore_, worker_thread_, filename,
                   res, qj_return, tf_result, tf_check, history, stops,
                   elsewhere>>

\* mutant: TryFinalize calls Load() on the completed job
TryFinalizePeekLoads ==
    /\ pc[MainThread] = "tf_peek"
    /\ UnlockMutex(MainThread)
    /\ IF done_ = <<>>
         THEN /\ res' = [res EXCEPT ![MainThread] = nullptr]
              /\ pc' = [pc EXCEPT ![MainThread] = "tf_ret"]
              /\ UNCHANGED load_log
         ELSE /\ res' = [res EXCEPT ![MainThread] = done_[1]]
              /\ pc' = [pc EXCEPT ![MainThread] = "in_finalize"]
              /\ load_log' =
                     Append(load_log, Event("call", done_[1], MainThread))
    /\ UNCHANGED <<queue_, done_, job_semaphore_, worker_thread_, filename,
                   qj_return, tf_result, tf_check, submitted, finalize_log,
                   finalized, stops, elsewhere>>

\* res = done_.empty() ? nullptr : done_[0]; if (!res) break; res->Finalize()
TryFinalizePeek ==
    /\ pc[MainThread] = "tf_peek"
    /\ UnlockMutex(MainThread)
    /\ IF done_ = <<>>
         THEN /\ res' = [res EXCEPT ![MainThread] = nullptr]
              /\ pc' = [pc EXCEPT ![MainThread] = "tf_ret"]
              /\ UNCHANGED finalize_log
         ELSE /\ res' = [res EXCEPT ![MainThread] = done_[1]]
              /\ pc' = [pc EXCEPT ![MainThread] = "in_finalize"]
              /\ finalize_log' =
                     Append(finalize_log, Event("call", done_[1], MainThread))
    /\ UNCHANGED <<queue_, done_, job_semaphore_, worker_thread_, filename,
                   qj_return, tf_result, tf_check, submitted, load_log,
                   finalized, stops, elsewhere>>

\* Finalize() returns; SDL_LockMutex of Lock()
TryFinalizeReturned ==
    /\ pc[MainThread] = "in_finalize"
    /\ finalize_log' =
           Append(finalize_log, Event("ret", res[MainThread], MainThread))
    /\ pc' = [pc EXCEPT ![MainThread] = "tf_erase"]
    /\ UNCHANGED <<shared, filename, res, qj_return, tf_result, tf_check,
                   submitted, load_log, finalized, stops, elsewhere>>

TryFinalizeLockErase ==
    /\ pc[MainThread] = "tf_erase"
    /\ LockMutex(MainThread)
    /\ pc' = [pc EXCEPT ![MainThread] = "tf_erase_locked"]
    /\ UNCHANGED <<queue_, done_, job_semaphore_, worker_thread_, filename,
                   res, qj_return, tf_result, tf_check, history, stops,
                   elsewhere>>

\* mutant: TryFinalize clears the completed queue
TryFinalizeEraseAll ==
    /\ pc[MainThread] = "tf_erase_locked"
    /\ done_ /= <<>>
    /\ done_' = <<>>
    /\ finalized' = Append(finalized, done_[1])
    /\ UnlockMutex(MainThread)
    /\ pc' = [pc EXCEPT ![MainThread] = "tf_top"]
    /\ UNCHANGED <<queue_, job_semaphore_, worker_thread_, filename, res,
                   qj_return, tf_result, tf_check, submitted, load_log,
                   finalize_log, stops, elsewhere>>

\* mutant: TryFinalize erases the back of the completed queue
TryFinalizeEraseBack ==
    /\ pc[MainThread] = "tf_erase_locked"
    /\ done_ /= <<>>
    /\ done_' = SubSeq(done_, 1, Len(done_) - 1)
    /\ finalized' = Append(finalized, done_[Len(done_)])
    /\ UnlockMutex(MainThread)
    /\ pc' = [pc EXCEPT ![MainThread] = "tf_top"]
    /\ UNCHANGED <<queue_, job_semaphore_, worker_thread_, filename, res,
                   qj_return, tf_result, tf_check, submitted, load_log,
                   finalize_log, stops, elsewhere>>

\* done_.erase(done_.begin()) under the lock, then loop
TryFinalizeErase ==
    /\ pc[MainThread] = "tf_erase_locked"
    /\ done_ /= <<>>
    /\ done_' = Tail(done_)
    /\ finalized' = Append(finalized, done_[1])
    /\ UnlockMutex(MainThread)
    /\ pc' = [pc EXCEPT ![MainThread] = "tf_top"]
    /\ UNCHANGED <<queue_, job_semaphore_, worker_thread_, filename, res,
                   qj_return, tf_result, tf_check, submitted, load_log,
                   finalize_log, stops, elsewhere>>

\* mutant: TryFinalize waits until no Load() is running before its last check
TryFinalizeLockQueueWaits ==
    /\ pc[MainThread] = "tf_ret"
    /\ \A w \in Workers : pc[w] /= "in_load"
    /\ LockMutex(MainThread)
    /\ pc' = [pc EXCEPT ![MainThread] = "tf_ret_locked"]
    /\ UNCHANGED <<queue_, done_, job_semaphore_, worker_thread_, filename,
                   res, qj_return, tf_result, tf_check, history, stops,
                   elsewhere>>

\* return Lock(...): SDL_LockMutex before reading queue_.empty()
TryFinalizeLockQueue ==
    /\ pc[MainThread] = "tf_ret"
    /\ LockMutex(MainThread)
    /\ pc' = [pc EXCEPT ![MainThread] = "tf_ret_locked"]
    /\ UNCHANGED <<queue_, done_, job_semaphore_, worker_thread_, filename,
                   res, qj_return, tf_result, tf_check, history, stops,
                   elsewhere>>

\* mutant: the return value also looks at the completed queue
TryFinalizeReturnBothEmpty ==
    /\ pc[MainThread] = "tf_ret_locked"
    /\ tf_result' = (queue_ = <<>> /\ done_ = <<>>)
    /\ tf_check' = [tf_check EXCEPT !.pending = Len(queue_),
                                    !.completed = Len(done_),
                                    !.prev = IF queue_ = <<>> /\ done_ = <<>>
                                             THEN "true" ELSE "false"]
    /\ UnlockMutex(MainThread)
    /\ pc' = [pc EXCEPT ![MainThread] = "tf_returned"]
    /\ UNCHANGED <<queue_, done_, job_semaphore_, worker_thread_, filename,
                   res, qj_return, history, stops, elsewhere>>

\* mutant: the return value does not count the bookend as pending
TryFinalizeReturnSkipsBookend ==
    /\ pc[MainThread] = "tf_ret_locked"
    /\ tf_result' = (\A i \in 1..Len(queue_) : IsBookend(queue_[i]))
    /\ tf_check' = [tf_check EXCEPT !.pending = Len(queue_),
                                    !.completed = Len(done_),
                                    !.prev = IF tf_result' THEN "true"
                                             ELSE "false"]
    /\ UnlockMutex(MainThread)
    /\ pc' = [pc EXCEPT ![MainThread] = "tf_returned"]
    /\ UNCHANGED <<queue_, done_, job_semaphore_, worker_thread_, filename,
                   res, qj_return, history, stops, elsewhere>>

\* return LockReturn<bool>([this]() { return queue_.empty(); })
TryFinalizeReturn ==
    /\ pc[MainThread] = "tf_ret_locked"
    /\ tf_result' = (queue_ = <<>>)
    /\ tf_check' = [tf_check EXCEPT !.pending = Len(queue_),
                                    !.completed = Len(done_),
                                    !.prev = IF queue_ = <<>> THEN "true"
                                             ELSE "false"]
    /\ UnlockMutex(MainThread)
    /\ pc' = [pc EXCEPT ![MainThread] = "tf_returned"]
    /\ UNCHANGED <<queue_, done_, job_semaphore_, worker_thread_, filename,
                   res, qj_return, history, stops, elsewhere>>

\* the caller has read the value TryFinalize returned; the temporary is gone
TryFinalizeDone ==
    /\ pc[MainThread] = "tf_returned"
    /\ pc' = [pc EXCEPT ![MainThread] = "idle"]
    /\ tf_result' = FALSE
    /\ tf_check' = [tf_check EXCEPT !.pending = 0, !.completed = 0]
    /\ UNCHANGED <<shared, filename, res, qj_return, history, stops,
                   elsewhere>>

\* mutant: the destructor goes to the join without pushing the bookend
DestroyNoStop ==
    /\ pc[MainThread] = "idle"
    /\ pc' = [pc EXCEPT ![MainThread] = "dtor_wait"]
    /\ UNCHANGED <<shared, filename, res, qj_return, tf_result, tf_check,
                   history, stops, elsewhere>>

\* ~AsyncLoader(): StopLoadingWhenComplete()
Destroy ==
    /\ QueueJobEnter(bookend, "dtor_wait")
    /\ UNCHANGED stops

\* mutant: the destructor does not join the worker thread
DestroyWaitThreadNoJoin ==
    /\ pc[MainThread] = "dtor_wait"
    /\ pc' = [pc EXCEPT ![MainThread] = "dtor_mutex"]
    /\ UNCHANGED <<shared, filename, res, qj_return, tf_result, tf_check,
                   history, stops, elsewhere>>

\* SDL_WaitThread(worker_thread_, nullptr): returns at once for nullptr
DestroyWaitThread ==
    /\ pc[MainThread] = "dtor_wait"
    /\ worker_thread_ /= nullptr => pc[worker_thread_] = "exited"
    /\ pc' = [pc EXCEPT ![MainThread] = "dtor_mutex"]
    /\ UNCHANGED <<shared, filename, res, qj_return, tf_result, tf_check,
                   history, stops, elsewhere>>

\* SDL_DestroyMutex(mutex_); mutex_ = nullptr
DestroyMutex ==
    /\ pc[MainThread] = "dtor_mutex"
    /\ mutex_' = [mutex_ EXCEPT !.live = FALSE]
    /\ pc' = [pc EXCEPT ![MainThread] = "dtor_sem"]
    /\ UNCHANGED <<queue_, done_, job_semaphore_, worker_thread_, filename,
                   res, qj_return, tf_result, tf_check, history, stops,
                   elsewhere>>

\* SDL_DestroySemaphore(job_semaphore_); job_semaphore_ = nullptr
DestroySemaphore ==
    /\ pc[MainThread] = "dtor_sem"
    /\ job_semaphore_' = [job_semaphore_ EXCEPT !.live = FALSE]
    /\ pc' = [pc EXCEPT ![MainThread] = "destroyed"]
    /\ UNCHANGED <<queue_, done_, mutex_, worker_thread_, filename, res,
                   qj_return, tf_result, tf_check, history, stops, elsewhere>>

\* ------------------------------------------------------ the worker thread
\* LockReturn: SDL_LockMutex before reading queue_
WorkerLockQueue(w) ==
    /\ pc[w] = "top"
    /\ LockMutex(w)
    /\ pc' = [pc EXCEPT ![w] = "peek"]
    /\ UNCHANGED <<queue_, done_, job_semaphore_, worker_thread_, filename,
                   res, qj_return, tf_result, tf_check, history, stops,
                   elsewhere>>

\* mutant: the worker looks for the bookend at the back of the queue
WorkerPeekBack(w) ==
    /\ pc[w] = "peek"
    /\ UnlockMutex(w)
    /\ IF queue_ = <<>>
         THEN /\ res' = [res EXCEPT ![w] = nullptr]
              /\ pc' = [pc EXCEPT ![w] = "wait"]
              /\ UNCHANGED load_log
         ELSE /\ res' = [res EXCEPT ![w] = queue_[1]]
              /\ IF IsBookend(queue_[Len(queue_)])
                   THEN /\ pc' = [pc EXCEPT ![w] = "exited"]
                        /\ UNCHANGED load_log
                   ELSE /\ pc' = [pc EXCEPT ![w] = "in_load"]
                        /\ load_log' =
                               Append(load_log, Event("call", queue_[1], w))
    /\ UNCHANGED <<queue_, done_, job_semaphore_, worker_thread_, filename,
                   qj_return, tf_result, tf_check, submitted, finalize_log,
                   finalized, stops, elsewhere>>

\* mutant: Load() is called inside the LockReturn lambda, the mutex held
WorkerPeekLoadLocked(w) ==
    /\ pc[w] = "peek"
    /\ IF queue_ = <<>>
         THEN /\ res' = [res EXCEPT ![w] = nullptr]
              /\ pc' = [pc EXCEPT ![w] = "wait"]
              /\ UnlockMutex(w)
              /\ UNCHANGED load_log
         ELSE /\ res' = [res EXCEPT ![w] = queue_[1]]
              /\ IF IsBookend(queue_[1])
                   THEN /\ pc' = [pc EXCEPT ![w] = "exited"]
                        /\ UnlockMutex(w)
                        /\ UNCHANGED load_log
                   ELSE /\ pc' = [pc EXCEPT ![w] = "in_load"]
                        /\ UNCHANGED mutex_
                        /\ load_log' =
                               Append(load_log, Event("call", queue_[1], w))
    /\ UNCHANGED <<queue_, done_, job_semaphore_, worker_thread_, filename,
                   qj_return, tf_result, tf_check, submitted, finalize_log,
                   finalized, stops, elsewhere>>

\* mutant: the worker goes to SemWait without releasing the mutex
WorkerPeekWaitLocked(w) ==
    /\ pc[w] = "peek"
    /\ mutex_.owner = w
    /\ IF queue_ = <<>>
         THEN /\ res' = [res EXCEPT ![w] = nullptr]
              /\ pc' = [pc EXCEPT ![w] = "wait"]
              /\ UNCHANGED <<load_log, mutex_>>
         ELSE /\ mutex_' = [mutex_ EXCEPT !.owner = nullptr]
              /\ res' = [res EXCEPT ![w] = queue_[1]]
              /\ IF IsBookend(queue_[1])
                   THEN /\ pc' = [pc EXCEPT ![w] = "exited"]
                        /\ UNCHANGED load_log
                   ELSE /\ pc' = [pc EXCEPT ![w] = "in_load"]
                        /\ load_log' =
                               Append(load_log, Event("call", queue_[1], w))
    /\ UNCHANGED <<queue_, done_, job_semaphore_, worker_thread_, filename,
                   qj_return, tf_result, tf_check, submitted, finalize_log,
                   finalized, stops, elsewhere>>

\* mutant: the worker treats the bookend as a job
WorkerPeekNoBookend(w) ==
    /\ pc[w] = "peek"
    /\ UnlockMutex(w)
    /\ IF queue_ = <<>>
         THEN /\ res' = [res EXCEPT ![w] = nullptr]
              /\ pc' = [pc EXCEPT ![w] = "wait"]
              /\ UNCHANGED load_log
         ELSE /\ res' = [res EXCEPT ![w] = queue_[1]]
              /\ pc' = [pc EXCEPT ![w] = "in_load"]
              /\ load_log' = Append(load_log, Event("call", queue_[1], w))
    /\ UNCHANGED <<queue_, done_, job_semaphore_, worker_thread_, filename,
                   qj_return, tf_result, tf_check, submitted, finalize_log,
                   finalized, stops, elsewhere>>

\* mutant: the worker pops the job it is about to load
WorkerPeekPops(w) ==
    /\ pc[w] = "peek"
    /\ UnlockMutex(w)
    /\ IF queue_ = <<>>
         THEN /\ res' = [res EXCEPT ![w] = nullptr]
              /\ pc' = [pc EXCEPT ![w] = "wait"]
              /\ UNCHANGED <<load_log, queue_>>
         ELSE /\ res' = [res EXCEPT ![w] = queue_[1]]
              /\ IF IsBookend(queue_[1])
                   THEN /\ pc' = [pc EXCEPT ![w] = "exited"]
                        /\ UNCHANGED <<load_log, queue_>>
                   ELSE /\ pc' = [pc EXCEPT ![w] = "in_load"]
                        /\ queue_' = Tail(queue_)
                        /\ load_log' =
                               Append(load_log, Event("call", queue_[1], w))
    /\ UNCHANGED <<done_, job_semaphore_, worker_thread_, filename,
                   qj_return, tf_result, tf_check, submitted, finalize_log,
                   finalized, stops, elsewhere>>

\* mutant: the worker knows the bookend by its address, not by its name
WorkerPeekByAddress(w) ==
    /\ pc[w] = "peek"
    /\ UnlockMutex(w)
    /\ IF queue_ = <<>>
         THEN /\ res' = [res EXCEPT ![w] = nullptr]
              /\ pc' = [pc EXCEPT ![w] = "wait"]
              /\ UNCHANGED load_log
         ELSE /\ res' = [res EXCEPT ![w] = queue_[1]]
              /\ IF queue_[1] = bookend
                   THEN /\ pc' = [pc EXCEPT ![w] = "exited"]
                        /\ UNCHANGED load_log
                   ELSE /\ pc' = [pc EXCEPT ![w] = "in_load"]
                        /\ load_log' =
                               Append(load_log, Event("call", queue_[1], w))
    /\ UNCHANGED <<queue_, done_, job_semaphore_, worker_thread_, filename,
                   qj_return, tf_result, tf_check, submitted, finalize_log,
                   finalized, stops, elsewhere>>

\* res = queue_.empty() ? nullptr : queue_[0]; then wait, break or Load()
WorkerPeek(w) ==
    /\ pc[w] = "peek"
    /\ UnlockMutex(w)
    /\ IF queue_ = <<>>
         THEN /\ res' = [res EXCEPT ![w] = nullptr]
              /\ pc' = [pc EXCEPT ![w] = "wait"]
              /\ UNCHANGED load_log
         ELSE /\ res' = [res EXCEPT ![w] = queue_[1]]
              /\ IF IsBookend(queue_[1])
                   THEN /\ pc' = [pc EXCEPT ![w] = "exited"]
                        /\ UNCHANGED load_log
                   ELSE /\ pc' = [pc EXCEPT ![w] = "in_load"]
                        /\ load_log' =
                               Append(load_log, Event("call", queue_[1], w))
    /\ UNCHANGED <<queue_, done_, job_semaphore_, worker_thread_, filename,
                   qj_return, tf_result, tf_check, submitted, finalize_log,
                   finalized, stops, elsewhere>>

\* SDL_SemWait(job_semaphore_); continue
WorkerSemWait(w) ==
    /\ pc[w] = "wait"
    /\ job_semaphore_.live
    /\ job_semaphore_.value > 0
    /\ job_semaphore_' = [job_semaphore_ EXCEPT !.value = @ - 1]
    /\ pc' = [pc EXCEPT ![w] = "top"]
    /\ UNCHANGED <<queue_, done_, mutex_, worker_thread_, filename, res,
                   qj_return, tf_result, tf_check, history, stops, elsewhere>>

\* mutant: a stop request cancels the Load() in flight
WorkerLoadedCancelled(w) ==
    /\ pc[w] = "in_load"
    /\ IF bookend \in Range(queue_)
         THEN /\ pc' = [pc EXCEPT ![w] = "exited"]
              /\ UNCHANGED load_log
         ELSE /\ pc' = [pc EXCEPT ![w] = "move"]
              /\ load_log' = Append(load_log, Event("ret", res[w], w))
    /\ UNCHANGED <<shared, filename, res, qj_return, tf_result, tf_check,
                   submitted, finalize_log, finalized, stops, elsewhere>>

\* Load() returns
WorkerLoaded(w) ==
    /\ pc[w] = "in_load"
    /\ load_log' = Append(load_log, Event("ret", res[w], w))
    /\ pc' = [pc EXCEPT ![w] = "move"]
    /\ UNCHANGED <<shared, filename, res, qj_return, tf_result, tf_check,
                   submitted, finalize_log, finalized, stops, elsewhere>>

WorkerLockMove(w) ==
    /\ pc[w] = "move"
    /\ LockMutex(w)
    /\ pc' = [pc EXCEPT ![w] = "move_locked"]
    /\ UNCHANGED <<queue_, done_, job_semaphore_, worker_thread_, filename,
                   res, qj_return, tf_result, tf_check, history, stops,
                   elsewhere>>

\* mutant: the loaded job is inserted at the front of the completed queue
WorkerMoveFront(w) ==
    /\ pc[w] = "move_locked"
    /\ queue_ /= <<>>
    /\ queue_' = Tail(queue_)
    /\ done_' = <<res[w]>> \o done_
    /\ UnlockMutex(w)
    /\ pc' = [pc EXCEPT ![w] = "top"]
    /\ tf_check' = [tf_check EXCEPT !.prev = "none"]
    /\ UNCHANGED <<job_semaphore_, worker_thread_, filename, res, qj_return,
                   tf_result, history, stops, elsewhere>>

\* mutant: the loaded job is pushed to done_ but stays in the pending queue
WorkerMoveNoErase(w) ==
    /\ pc[w] = "move_locked"
    /\ queue_ /= <<>>
    /\ done_' = Append(done_, res[w])
    /\ UnlockMutex(w)
    /\ pc' = [pc EXCEPT ![w] = "top"]
    /\ tf_check' = [tf_check EXCEPT !.prev = "none"]
    /\ UNCHANGED <<queue_, job_semaphore_, worker_thread_, filename, res,
                   qj_return, tf_result, history, stops, elsewhere>>

\* mutant: the loaded job is erased from the pending queue and dropped
WorkerMoveDrop(w) ==
    /\ pc[w] = "move_locked"
    /\ queue_ /= <<>>
    /\ queue_' = Tail(queue_)
    /\ UnlockMutex(w)
    /\ pc' = [pc EXCEPT ![w] = "top"]
    /\ tf_check' = [tf_check EXCEPT !.prev = "none"]
    /\ UNCHANGED <<done_, job_semaphore_, worker_thread_, filename, res,
                   qj_return, tf_result, history, stops, elsewhere>>

\* queue_.erase(queue_.begin()); done_.push_back(res) under the lock
WorkerMove(w) ==
    /\ pc[w] = "move_locked"
    /\ queue_ /= <<>>
    /\ queue_' = Tail(queue_)
    /\ done_' = Append(done_, res[w])
    /\ UnlockMutex(w)
    /\ pc' = [pc EXCEPT ![w] = "top"]
    /\ tf_check' = [tf_check EXCEPT !.prev = "none"]
    /\ UNCHANGED <<job_semaphore_, worker_thread_, filename, res, qj_return,
                   tf_result, history, stops, elsewhere>>

LoaderWorker ==
    \E w \in Workers :
        \/ WorkerLockQueue(w)
        \/ WorkerPeek(w)
        \/ WorkerSemWait(w)
        \/ WorkerLoaded(w)
        \/ WorkerLockMove(w)
        \/ WorkerMove(w)

\* ---------------------------------------------------------- specification
QueueJobStep ==
    \/ QueueJobPush
    \/ QueueJobPost

TryFinalizeStep ==
    \/ TryFinalizeLockDone
    \/ TryFinalizePeek
    \/ TryFinalizeReturned
    \/ TryFinalizeLockErase
    \/ TryFinalizeErase
    \/ TryFinalizeLockQueue
    \/ TryFinalizeReturn

DestroyStep ==
    \/ DestroyWaitThread
    \/ DestroyMutex
    \/ DestroySemaphore

\* the caller thread goes on inside the call it has made
CallerStep ==
    \/ QueueJobStep
    \/ TryFinalizeStep
    \/ TryFinalizeDone
    \/ DestroyStep

Next ==
    \/ QueueJob
    \/ StopLoadingWhenComplete
    \/ StartLoading
    \/ TryFinalize
    \/ Destroy
    \/ CallerStep
    \/ LoaderWorker

Spec == Init /\ [][Next]_vars

\* The loading scenario of the game and of the loader's documentation: the
\* caller queues its jobs, calls StartLoading once, and then calls
\* TryFinalize again and again until it returns true.
NextScenario ==
    \/ QueueJob /\ worker_thread_ = nullptr
    \/ StartLoading /\ worker_thread_ = nullptr
    \/ TryFinalize /\ worker_thread_ /= nullptr
    \/ TryFinalizeDone /\ ~tf_result
    \/ QueueJobStep
    \/ TryFinalizeStep
    \/ LoaderWorker

SpecScenario == Init /\ [][NextScenario]_vars

\* Fair scheduling: a started worker keeps running, and the caller finishes
\* the call it is in; nothing forces the caller to make a new call.  The
\* fairness is strong because a thread that waits for the mutex gets it once
\* the mutex is released again and again, and is not starved by the other
\* thread's taking it in between.
SpecLive == Spec /\ SF_vars(LoaderWorker) /\ SF_vars(CallerStep)

\* the steps a worker takes while it holds the mutex
WorkerCritical == \E w \in Workers : WorkerPeek(w) \/ WorkerMove(w)

\* Scheduling under which only the lambdas run under the mutex are known to
\* end: the caller finishes the call it is in whenever it can take a step,
\* a worker that holds the mutex releases it, and nothing is assumed about
\* how long Load() or SemWait last.
SpecCaller == Spec /\ SF_vars(CallerStep) /\ WF_vars(WorkerCritical)

\* The loader with user resources of any name: a user resource may have
\* been given the file name "bookend".
FileNames ==
    {names \in [AllResources ->
                   {kBookendFileName} \cup {<<"asset", r>> : r \in Resources}] :
        /\ names[bookend] = kBookendFileName
        /\ \A r \in Resources : names[r] \in {kBookendFileName, <<"asset", r>>}}

InitNames ==
    /\ \E names \in FileNames : InitLoaderNamed(names)
    /\ range_args = [a |-> RangeT(1, 0), b |-> RangeT(1, 0), x |-> 0]
    /\ range_ret = NoCall
    /\ curve_args = [c |-> QuadraticCurveDefault, x_limits |-> RangeT(1, 0)]
    /\ curve_ret = NoCurveCall
    /\ game = NoGame
    /\ gui_state = NoGuiCall

SpecNames == InitNames /\ [][Next]_vars

\* ---------------------------------------------- calls of RangeT functions
loader == <<queue_, done_, mutex_, job_semaphore_, worker_thread_, filename,
            pc, res, qj_return, tf_result, tf_check, submitted, load_log,
            finalize_log, finalized, stops>>

\* the arguments are those of the call named by the fields they have
Given(fields) == DOMAIN range_args = fields

\* any ranges, valid or not, and any scalars
InitRange ==
    /\ InitLoader
    /\ range_args \in [a : Ranges, b : Ranges, x : Scalars]
                       \cup [a : Ranges, b : Ranges, c : Ranges]
                       \cup [r : Ranges, x : WideScalars]
                       \cup [r : Ranges, a : Scalars, b : Scalars]
                       \cup [arr_a : RangeArrays, arr_b : RangeArrays,
                             use_gaps : BOOLEAN]
    /\ range_ret = NoCall
    /\ curve_args = [c |-> QuadraticCurveDefault, x_limits |-> RangeT(1, 0)]
    /\ curve_ret = NoCurveCall
    /\ game = NoGame
    /\ gui_state = NoGuiCall

\* a.Clamp(x), with a.Contains(x) next to it
CallClamp ==
    /\ Given({"a", "b", "x"})
    /\ range_ret.op = "none"
    /\ range_ret' = [op |-> "Clamp",
                     value |-> Clamp(range_args.a, range_args.x),
                     range |-> range_args.a,
                     flag |-> Contains(range_args.a, range_args.x)]
    /\ UNCHANGED <<loader, range_args, curves, apps>>

\* RangeT::Intersect(a, b), with Valid() of the result next to it
CallIntersect ==
    /\ Given({"a", "b", "x"})
    /\ range_ret.op = "none"
    /\ range_ret' = [op |-> "Intersect",
                     value |-> range_args.x,
                     range |-> Intersect(range_args.a, range_args.b),
                     flag |-> Valid(Intersect(range_args.a, range_args.b))]
    /\ UNCHANGED <<loader, range_args, curves, apps>>

\* Intersect(Intersect(a, b), c) and Intersect(a, Intersect(b, c))
CallIntersectTwice ==
    /\ Given({"a", "b", "c"})
    /\ range_ret.op = "none"
    /\ range_ret' =
           [op |-> "IntersectTwice",
            left |-> Intersect(Intersect(range_args.a, range_args.b),
                               range_args.c),
            right |-> Intersect(range_args.a,
                                Intersect(range_args.b, range_args.c))]
    /\ UNCHANGED <<loader, range_args, curves, apps>>

\* r.Normalize(x): the adjustment, the value returned by a build without
\* asserts, and whether the assert of ModularAdjustment holds
CallNormalize ==
    /\ Given({"r", "x"})
    /\ range_ret.op = "none"
    /\ range_ret' =
           [op |-> "Normalize",
            adjustment |-> ModularAdjustment(range_args.r, range_args.x),
            value |-> Normalize(range_args.r, range_args.x),
            flag |-> ModularAdjustmentAssert(range_args.r, range_args.x)]
    /\ UNCHANGED <<loader, range_args, curves, apps>>

\* r.ModDiff(a, b, direction) for every direction, and whether the assert
\* of ModularAdjustment holds in the Normalize(b - a) they share
CallModDiff ==
    /\ Given({"r", "a", "b"})
    /\ range_ret.op = "none"
    /\ range_ret' =
           [op |-> "ModDiff",
            diff |-> [d \in ModularDirection |->
                         ModDiff(range_args.r, range_args.a, range_args.b, d)],
            flag |-> ModularAdjustmentAssert(range_args.r,
                                             range_args.b - range_args.a)]
    /\ UNCHANGED <<loader, range_args, curves, apps>>

\* IntersectRanges(a, len_a, b, len_b, intersections, gaps, &len_gaps),
\* gaps and len_gaps being nullptr unless use_gaps
CallIntersectRanges ==
    /\ Given({"arr_a", "arr_b", "use_gaps"})
    /\ range_ret.op = "none"
    /\ range_ret' =
           [op |-> "IntersectRanges",
            out |-> IntersectRanges(range_args.arr_a, range_args.arr_b,
                                    range_args.use_gaps)]
    /\ UNCHANGED <<loader, range_args, curves, apps>>

NextRange ==
    \/ CallIntersectRanges
    \/ CallClamp
    \/ CallIntersect
    \/ CallIntersectTwice
    \/ CallNormalize
    \/ CallModDiff

SpecRange == InitRange /\ [][NextRange]_vars

\* ------------------------------------------------------------------ curves
\* A float is held exactly, as a whole number of 1 / XScale; XScale is such
\* that every quotient the root finder forms of the values below is one.
RECURSIVE Factorial(_)
Factorial(n) == IF n <= 1 THEN 1 ELSE n * Factorial(n - 1)
XScale == 2 * Factorial(MaxCoeff)

\* the floats that are not numbers: 0 / 0, and x / 0 for x /= 0
NaN == [kind |-> "nan", v |-> 0]
Inf(sign) == [kind |-> "inf", v |-> sign]
Finite(v) == [kind |-> "finite", v |-> v]

fabs(v) == IF v < 0 THEN -v ELSE v

\* 1 / kEpsilonScale
kEpsilonScaleInverse == 2 ^ 22

\* fabs(a) < Epsilon(), Epsilon() being max_c * kEpsilonScale
BelowEpsilon(c, a) ==
    LET max_c == Max(Max(fabs(c[2]), fabs(c[1])), fabs(c[0]))
    IN  fabs(a) * kEpsilonScaleInverse < max_c

\* Evaluate(x) * scale^2 for x = n / scale
EvaluateScaled(c, n, scale) == (c[2] * n + c[1] * scale) * n + c[0] * scale * scale

Discriminant(c) == c[1] * c[1] - 4 * c[2] * c[0]

\* the discriminant, set to zero when it is close to zero
ReliableDiscriminant(c) ==
    IF BelowEpsilon(c, Discriminant(c)) THEN 0 ELSE Discriminant(c)

\* -(c_[1] / c_[2]) * 0.5f; the assertion is fabs(c_[2]) >= Epsilon()
CriticalPointAssert(c) == ~BelowEpsilon(c, c[2])
CriticalPoint(c) ==
    IF c[2] /= 0 THEN Finite((-(c[1] * XScale)) \div (2 * c[2]))
    ELSE IF c[1] = 0 THEN NaN
    ELSE Inf(IF c[1] < 0 THEN 1 ELSE -1)

\* the square root of a whole number that has one
IsSquare(d) == \E s \in 0..d : s * s = d
sqrt(d) == CHOOSE s \in 0..d : s * s = d

\* the curves the root finder is called with: those whose roots are rational
Quadratics ==
    {c \in [0..2 -> Coeffs] : Discriminant(c) < 0 \/ IsSquare(Discriminant(c))}

\* size_t Roots(float roots[2]): the entries of roots written
Roots(c) ==
    IF BelowEpsilon(c, c[2])
      THEN IF BelowEpsilon(c, c[1])
             THEN <<>>
             ELSE <<Finite((-(c[0] * XScale)) \div c[1])>>
    ELSE LET discriminant == ReliableDiscriminant(c)
         IN  IF discriminant < 0 THEN <<>>
             ELSE IF discriminant = 0 THEN <<CriticalPoint(c)>>
             ELSE LET root_minus ==
                          ((-c[1] - sqrt(discriminant)) * XScale) \div (2 * c[2])
                      root_plus ==
                          ((-c[1] + sqrt(discriminant)) * XScale) \div (2 * c[2])
                  IN  <<Finite(Min(root_minus, root_plus)),
                        Finite(Max(root_minus, root_plus))>>

\* x_limits.Contains(x) of a float: every comparison with a NaN is false
ContainsFloat(x_limits, x) ==
    \/ x.kind = "finite" /\ Contains(x_limits, x.v)
    \/ x.kind = "inf" /\ FALSE

\* size_t RootsInRange(x_limits, float roots[2])
RootsInRange(c, x_limits) ==
    SelectSeq(Roots(c), LAMBDA x : ContainsFloat(x_limits, x))

\* the sign of a value, as -1, 0 or 1
SignOf(v) == IF v < 0 THEN -1 ELSE IF v > 0 THEN 1 ELSE 0

\* size_t RangesMatchingSign(x_limits, sign, Range matching[2]): x_limits is
\* cut at the roots within it, and the pieces at whose Middle() the curve
\* has the sign of `sign` are written to matching
RangesMatchingSign(c, x_limits, sign) ==
    LET roots == RootsInRange(c, x_limits)
        cuts == <<x_limits.start_>> \o [k \in 1..Len(roots) |-> roots[k].v]
                    \o <<x_limits.end_>>
        pieces == [k \in 1..(Len(cuts) - 1) |-> RangeT(cuts[k], cuts[k + 1])]
    IN  SelectSeq(pieces,
            LAMBDA r : SignOf(EvaluateScaled(c, r.start_ + r.end_, 2 * XScale))
                           = SignOf(sign))

\* mutant: RangesAboveZero asks for the negative sign
RangesAboveZeroMinus(c, x_limits) == RangesMatchingSign(c, x_limits, -1)

RangesAboveZero(c, x_limits) == RangesMatchingSign(c, x_limits, 1)

RangesBelowZero(c, x_limits) == RangesMatchingSign(c, x_limits, -1)

\* the limits the curve functions are called with, valid or not
XLimits == {RangeT(s * XScale, e * XScale) : s, e \in Scalars}

\* ---- rounded arithmetic
\* Where rounding matters a float is a binary floating-point number with a
\* significand of SigBits bits, held as a whole number of 2^-FracBits; every
\* operation rounds its exact result to the nearest such number, ties to
\* even.
SigBits == 6
FracBits == 10
Unit == 2 ^ FracBits

\* the spacing of the floats around q units
RECURSIVE Quantum(_)
Quantum(q) == IF q < 2 ^ SigBits THEN 1 ELSE 2 * Quantum(q \div 2)

\* a / b for a >= 0 and b > 0, to the nearest whole number, ties to even
RoundNearestEven(a, b) ==
    LET f == a \div b
        r == a % b
    IN  IF 2 * r < b THEN f
        ELSE IF 2 * r > b THEN f + 1
        ELSE f + (f % 2)

\* the float nearest to num / den units, for den > 0
RoundFloat(num, den) ==
    LET a == fabs(num)
        Q == Quantum(a \div den)
    IN  (IF num < 0 THEN -1 ELSE 1) * RoundNearestEven(a, den * Q) * Q

\* a small whole number as a float
ToFloat(i) == i * Unit

FAdd(x, y) == RoundFloat(x + y, 1)
FSub(x, y) == RoundFloat(x - y, 1)
FMul(x, y) == RoundFloat(x * y, Unit)
FDiv(x, y) == RoundFloat(x * Unit, y)

\* x * y + z, which the compiler may contract into one fused multiply-add
\* that rounds once
FMulAdd(x, y, z, fused) ==
    IF fused THEN RoundFloat(x * y + z * Unit, Unit)
    ELSE FAdd(FMul(x, y), z)

\* ---- CubicCurve
\* CubicInit(start_y, start_derivative, end_y, end_derivative, width_x)
CubicInit(y0, s0, y1, s1, w) ==
    [start_y |-> y0, start_derivative |-> s0, end_y |-> y1,
     end_derivative |-> s1, width_x |-> w]

\* void CubicCurve::Init(const CubicInit& init): the closed form of the
\* Hermite fit, with the powers of 1 / w
CubicCurveInit(init) ==
    LET one_over_w == FDiv(ToFloat(1), init.width_x)
        one_over_w_sq == FMul(one_over_w, one_over_w)
        one_over_w_cubed == FMul(one_over_w_sq, one_over_w)
        dy == FSub(init.end_y, init.start_y)
        c2 == FSub(FMul(FMul(ToFloat(3), dy), one_over_w_sq),
                   FMul(FAdd(init.end_derivative,
                             FMul(ToFloat(2), init.start_derivative)),
                        one_over_w))
        c3 == FSub(FMul(FAdd(init.start_derivative, init.end_derivative),
                        one_over_w_sq),
                   FMul(FMul(ToFloat(2), dy), one_over_w_cubed))
    IN  [i \in 0..3 |-> IF i = 0 THEN init.start_y
                        ELSE IF i = 1 THEN init.start_derivative
                        ELSE IF i = 2 THEN c2 ELSE c3]

\* ((c_[3] * x + c_[2]) * x + c_[1]) * x + c_[0]
CubicEvaluate(c, x, fused) ==
    FMulAdd(FMulAdd(FMulAdd(c[3], x, c[2], fused), x, c[1], fused),
            x, c[0], fused)

\* mutant: the factor 2.0f of c_[2] is missing
CubicDerivativeNoTwo(c, x, fused) ==
    FMulAdd(FMulAdd(FMul(ToFloat(3), c[3]), x, c[2], fused),
            x, c[1], fused)

\* (3.0f * c_[3] * x + 2.0f * c_[2]) * x + c_[1]
CubicDerivative(c, x, fused) ==
    FMulAdd(FMulAdd(FMul(ToFloat(3), c[3]), x, FMul(ToFloat(2), c[2]), fused),
            x, c[1], fused)

\* the parameters the cubic is built from: whole values and slopes, and a
\* positive whole width
CubicInits ==
    {CubicInit(ToFloat(y0), ToFloat(s0), ToFloat(y1), ToFloat(s1), ToFloat(w)) :
        y0 \in Coeffs, s0 \in Coeffs, y1 \in Coeffs, s1 \in Coeffs,
        w \in 1..MaxWidth}

\* the arguments are those of the call named by the fields they have
GivenCurve(fields) == DOMAIN curve_args = fields

InitCurve ==
    /\ InitLoader
    /\ range_args = [a |-> RangeT(1, 0), b |-> RangeT(1, 0), x |-> 0]
    /\ range_ret = NoCall
    /\ curve_args \in [c : Quadratics, x_limits : XLimits]
                       \cup [init : CubicInits, fused : BOOLEAN]
    /\ curve_ret = NoCurveCall
    /\ game = NoGame
    /\ gui_state = NoGuiCall

\* CubicCurve(init), then Evaluate and Derivative at 0 and at width_x
CallCubicInit ==
    /\ GivenCurve({"init", "fused"})
    /\ curve_ret.op = "none"
    /\ LET c == CubicCurveInit(curve_args.init)
           w == curve_args.init.width_x
           fused == curve_args.fused
       IN  curve_ret' =
               [op |-> "CubicInit",
                c |-> c,
                at_0 |-> [y |-> CubicEvaluate(c, ToFloat(0), fused),
                          s |-> CubicDerivative(c, ToFloat(0), fused)],
                at_w |-> [y |-> CubicEvaluate(c, w, fused),
                          s |-> CubicDerivative(c, w, fused)]]
    /\ UNCHANGED <<loader, range_args, range_ret, curve_args, apps>>

\* Roots(&roots) and RootsInRange(x_limits, &in_range) of the curve
CallRootsInRange ==
    /\ GivenCurve({"c", "x_limits"})
    /\ curve_ret.op = "none"
    /\ curve_ret' = [op |-> "RootsInRange",
                     roots |-> Roots(curve_args.c),
                     in_range |-> RootsInRange(curve_args.c,
                                               curve_args.x_limits)]
    /\ UNCHANGED <<loader, range_args, range_ret, curve_args, apps>>

\* RangesAboveZero(x_limits, &above) and RangesBelowZero(x_limits, &below)
CallRangesAboveBelowZero ==
    /\ GivenCurve({"c", "x_limits"})
    /\ curve_ret.op = "none"
    /\ curve_ret' = [op |-> "RangesAboveBelowZero",
                     above |-> RangesAboveZero(curve_args.c,
                                               curve_args.x_limits),
                     below |-> RangesBelowZero(curve_args.c,
                                               curve_args.x_limits)]
    /\ UNCHANGED <<loader, range_args, range_ret, curve_args, apps>>

NextCurve ==
    \/ CallRootsInRange
    \/ CallRangesAboveBelowZero
    \/ CallCubicInit

SpecCurve == InitCurve /\ [][NextCurve]_vars

\* ------------------------------------------------- histories of the queues
\* the jobs pushed before the first bookend
AheadOfSentinel(s) ==
    LET first == {i \in 1..Len(s) : IsBookend(s[i])}
    IN  IF first = {} THEN s
        ELSE SubSeq(s, 1, (CHOOSE i \in first : \A k \in first : i <= k) - 1)

LoadCalls == ResOf(Calls(load_log))
LoadReturns == ResOf(Returns(load_log))
FinalizeCalls == ResOf(Calls(finalize_log))
FinalizeReturns == ResOf(Returns(finalize_log))

\* every call in the log has returned before the next call is made
Sequential(log) ==
    \A i \in 1..Len(log) :
        IF i % 2 = 1 THEN log[i].ev = "call"
        ELSE log[i].ev = "ret" /\ log[i].res = log[i - 1].res

NoRepeats(s) == \A i, k \in 1..Len(s) : s[i] = s[k] => i = k

\* --------------------------------------------------------------- claims
\* C1: with one worker, Load() runs on the user jobs in the order QueueJob
\* pushed them, and the Load() of a job returns before the Load() of the next
\* job begins.
C1_LoadInSubmissionOrder ==
    /\ Sequential(load_log)
    /\ IsPrefix(LoadCalls, AheadOfSentinel(submitted))

C1_Witness ==
    /\ LoadReturns = <<2, 1>>
    /\ submitted = <<2, 1>>

\* C2: Finalize() is called in the order the jobs entered the completed
\* queue, and that order is the order QueueJob pushed them, whatever the
\* number of TryFinalize calls.
C2_FinalizeInSubmissionOrder ==
    /\ Sequential(finalize_log)
    /\ IsPrefix(FinalizeCalls, finalized \o done_)
    /\ IsPrefix(finalized \o done_, AheadOfSentinel(submitted))

C2_Witness ==
    /\ finalized = <<2, 1>>
    /\ FinalizeReturns = <<2, 1>>
    /\ submitted = <<2, 1>>

\* C3: every job is loaded at most once and finalized at most once, a job is
\* finalized only after its Load() returned, it enters the completed queue
\* only after Load() returned and leaves it only after Finalize() returned.
C3_LoadOnceFinalizeOnce ==
    /\ NoRepeats(LoadCalls)
    /\ NoRepeats(FinalizeCalls)
    /\ Range(FinalizeCalls) \subseteq Range(LoadReturns)
    /\ Range(done_) \subseteq Range(LoadReturns)
    /\ Range(finalized) \subseteq Range(FinalizeReturns)
    /\ Range(done_) \cap Range(finalized) = {}
    /\ \A r \in Range(LoadReturns) :
          \/ r \in Range(done_)
          \/ r \in Range(finalized)
          \/ \E w \in Workers : pc[w] \in {"move", "move_locked"} /\ res[w] = r
    /\ \A r \in Range(LoadCalls) \ Range(LoadReturns) :
          \E w \in Workers : pc[w] = "in_load" /\ res[w] = r

C3_Witness ==
    /\ Len(finalized) = MaxJobs
    /\ Len(LoadReturns) = MaxJobs

\* the job has been moved from the pending queue to the completed queue
Completed(r) == r \in Range(finalized \o done_)

\* the job is in the pending queue with no bookend in front of it
PendingAheadOfSentinel(r) ==
    \E i \in 1..Len(queue_) :
        /\ queue_[i] = r
        /\ \A k \in 1..i : ~IsBookend(queue_[k])

C5_AllFinalizedWhenTrue ==
    (pc[MainThread] = "tf_returned" /\ tf_result) =>
        /\ LoadCalls = submitted
        /\ LoadReturns = submitted
        /\ FinalizeCalls = submitted
        /\ FinalizeReturns = submitted

\* C6: TryFinalize returns true exactly when the pending queue is empty at
\* its last, locked check, whatever the completed queue holds; with any entry
\* in the pending queue (a job, a job being loaded, the sentinel) it returns
\* false.
C6_ReturnsPendingEmpty ==
    [][(pc[MainThread] = "tf_ret_locked" /\ pc'[MainThread] /= "tf_ret_locked")
          => /\ tf_result' = (queue_ = <<>>)
             /\ mutex_.owner = MainThread
             /\ queue_' = queue_]_vars

C6_Witness ==
    /\ pc[MainThread] = "tf_returned"
    /\ tf_result
    /\ tf_check.pending = 0
    /\ tf_check.completed > 0

\* C7: a worker has exited only when every job pushed before the first
\* sentinel has been loaded and moved to the completed queue, and no job
\* pushed after a sentinel is ever passed to Load().
C7_DrainBarrier ==
    /\ (\E w \in Workers : pc[w] = "exited") =>
           /\ bookend \in Range(submitted)
           /\ \A r \in Range(AheadOfSentinel(submitted)) :
                  r \in Range(LoadReturns) /\ Completed(r)
    /\ Range(LoadCalls) \subseteq Range(AheadOfSentinel(submitted))

C7_Witness ==
    /\ \E w \in Workers : pc[w] = "exited"
    /\ Len(submitted) = 3
    /\ IsBookend(submitted[2])
    /\ Completed(submitted[1])
    /\ submitted[3] \in Range(queue_)

\* the threads that are running user code
InLoad == {t \in Threads : pc[t] = "in_load"}
InFinalize == {t \in Threads : pc[t] = "in_finalize"}

\* C8: no thread holds the mutex while it runs Load() or Finalize(), and
\* every push to and erase from either queue is made by a thread that holds
\* the mutex.
C8_UserCodeUnlockedMutationsLocked ==
    [][/\ \A t \in InLoad \cup InFinalize : mutex_.owner /= t
       /\ \A t \in InLoad' \cup InFinalize' : mutex_'.owner /= t
       /\ (queue_' /= queue_ \/ done_' /= done_) =>
              \E t \in Threads : mutex_.owner = t /\ pc'[t] /= pc[t]]_vars

C8_Witness ==
    /\ InLoad /= {}
    /\ InFinalize /= {}
    /\ mutex_.owner = nullptr
    /\ queue_ /= <<>>
    /\ done_ /= <<>>

\* a worker blocked in SemWait on a semaphore of value zero finds the pending
\* queue empty, or QueueJob between its push and its post
WaitImpliesNothingPending ==
    \A w \in Workers :
        (pc[w] = "wait" /\ job_semaphore_.value = 0) =>
            (queue_ = <<>> \/ pc[MainThread] = "qj_post")

\* C9: no wakeup is missed: whenever the worker is blocked in SemWait on a
\* semaphore of value zero, the pending queue is empty or QueueJob is between
\* its push and its post; and the worker does not stay in SemWait forever
\* while the pending queue is not empty.
C9_NoMissedWakeup ==
    /\ []WaitImpliesNothingPending
    /\ \A w \in Workers :
           (pc[w] = "wait" /\ queue_ /= <<>>) ~> (pc[w] /= "wait")

C9_Witness ==
    /\ \E w \in Workers : pc[w] = "wait"
    /\ job_semaphore_.value = 0
    /\ queue_ /= <<>>
    /\ pc[MainThread] = "qj_post"

\* C10: every Load() runs on a worker thread, every Finalize() runs on the
\* caller thread while it is inside TryFinalize, never the other way round.
C10_ThreadAffinity ==
    /\ \A i \in 1..Len(load_log) : load_log[i].thread \in Workers
    /\ \A i \in 1..Len(finalize_log) : finalize_log[i].thread = MainThread
    /\ InLoad \subseteq Workers
    /\ InFinalize \subseteq {MainThread}
    /\ Len(LoadCalls) > Len(LoadReturns) => InLoad /= {}
    /\ Len(FinalizeCalls) > Len(FinalizeReturns) => InFinalize = {MainThread}

C10_Witness ==
    /\ InLoad /= {}
    /\ InFinalize = {MainThread}
    /\ Len(LoadCalls) = 2
    /\ Len(FinalizeCalls) = 1

\* the destructor has been entered and has not returned
InDestructor ==
    \/ pc[MainThread] \in {"dtor_wait", "dtor_mutex", "dtor_sem"}
    \/ pc[MainThread] \in {"qj_locked", "qj_post"} /\ qj_return = "dtor_wait"

\* C11: the mutex and the semaphore are destroyed only after the bookend
\* has been pushed and the worker thread has exited: once either is
\* destroyed no worker thread is left that could lock the mutex or wait on
\* the semaphore.
C11_DestroyedAfterWorkerExit ==
    (~mutex_.live \/ ~job_semaphore_.live) =>
        /\ bookend \in Range(queue_)
        /\ LiveWorkers = {}
        /\ mutex_.owner = nullptr

C11_Witness ==
    /\ ~mutex_.live
    /\ ~job_semaphore_.live
    /\ worker_thread_ /= nullptr
    /\ pc[worker_thread_] = "exited"
    /\ LoadReturns /= <<>>

\* C12: the destructor, once entered, returns, whether or not jobs were
\* queued, StartLoading was called or StopLoadingWhenComplete was called
\* before; and as long as no job has been queued no Load() is called, a
\* worker that has exited having exited at the bookend.
C12_ShutdownTerminates ==
    /\ InDestructor ~> (pc[MainThread] = "destroyed")
    /\ [](Range(submitted) \subseteq {bookend} => load_log = <<>>)
    /\ [](\A w \in Workers : pc[w] = "exited" =>
              queue_ /= <<>> /\ IsBookend(queue_[1]))

C12_Witness ==
    /\ pc[MainThread] = "destroyed"
    /\ worker_thread_ /= nullptr
    /\ Range(submitted) = {bookend}
    /\ load_log = <<>>

\* C13: a stop request cancels nothing: a Load() that is running goes on to
\* its return with its job still in the pending queue, a job leaves the
\* pending queue only by the worker's move to the completed queue, and a job
\* whose Load() is running when the bookend is in the queue is eventually
\* in the completed queue.
C13_NoCancellation ==
    /\ [][\A w \in Workers :
             pc[w] = "in_load" =>
                 /\ pc'[w] \in {"in_load", "move"}
                 /\ res'[w] = res[w]
                 /\ queue_' /= <<>>
                 /\ queue_'[1] = res[w]]_vars
    /\ [][\/ IsPrefix(queue_, queue_')
          \/ \E w \in Workers :
                 /\ pc[w] = "move_locked"
                 /\ queue_ /= <<>>
                 /\ queue_[1] = res[w]
                 /\ queue_' = Tail(queue_)
                 /\ done_' = Append(done_, res[w])]_vars
    /\ \A r \in Resources :
           (/\ \E w \in Workers : pc[w] = "in_load" /\ res[w] = r
            /\ bookend \in Range(queue_)) ~> Completed(r)

C13_Witness ==
    /\ pc[MainThread] = "dtor_wait"
    /\ \E w \in Workers : pc[w] = "in_load" /\ queue_ = <<res[w], bookend>>

\* C15: the worker enters SemWait only from its locked read of the pending
\* queue, having found the queue empty and released the mutex; a worker in
\* SemWait never holds the mutex.
C15_SemWaitUnlockedOnEmpty ==
    [][\A w \in Workers :
          /\ pc[w] = "wait" => mutex_.owner /= w
          /\ (pc[w] /= "wait" /\ pc'[w] = "wait") =>
                 /\ pc[w] = "peek"
                 /\ mutex_.owner = w
                 /\ queue_ = <<>>
                 /\ queue_' = <<>>
                 /\ mutex_'.owner = nullptr]_vars

C15_Witness ==
    /\ \E w \in Workers : pc[w] = "wait"
    /\ mutex_.owner = MainThread
    /\ pc[MainThread] = "qj_locked"

\* C17: the bookend is never passed to Load(), never in the completed queue
\* and never passed to Finalize(); a worker that has exited has left the
\* bookend at the head of the pending queue.
C17_SentinelNeverProcessed ==
    /\ \A i \in 1..Len(load_log) : ~IsBookend(load_log[i].res)
    /\ \A i \in 1..Len(finalize_log) : ~IsBookend(finalize_log[i].res)
    /\ \A i \in 1..Len(done_) : ~IsBookend(done_[i])
    /\ \A i \in 1..Len(finalized) : ~IsBookend(finalized[i])
    /\ \A w \in Workers :
           pc[w] = "exited" =>
               /\ queue_ /= <<>>
               /\ IsBookend(queue_[1])
               /\ res[w] = queue_[1]

C17_Witness ==
    /\ \E w \in Workers : pc[w] = "exited"
    /\ Len(finalized) = 2
    /\ queue_ = <<bookend>>

\* StartLoading has been called again after an earlier worker exited
Restarted ==
    /\ worker_thread_ /= nullptr
    /\ \E w \in Workers : w /= worker_thread_ /\ pc[w] = "exited"

\* C18: loading can be restarted: once StartLoading has been called again
\* after the worker exited at the bookend, every job in the pending queue is
\* eventually moved to the completed queue.
C18_RestartLoadsLaterJobs ==
    \A r \in Resources :
        (Restarted /\ r \in Range(queue_)) ~> Completed(r)

\* the caller is inside QueueJob, StopLoadingWhenComplete or TryFinalize
InCall ==
    \/ pc[MainThread] \in {"qj_locked", "qj_post"} /\ qj_return = "idle"
    \/ pc[MainThread] \in {"tf_top", "tf_peek", "in_finalize", "tf_erase",
                            "tf_erase_locked", "tf_ret", "tf_ret_locked"}

\* C16: outside the destructor the caller never waits for the worker: a call
\* of QueueJob, StopLoadingWhenComplete or TryFinalize that has been entered
\* returns, and the mutex a call needs is never held by a worker for ever,
\* also when Load() never returns or the worker stays in SemWait.
C16_CallerNeverWaitsForWorker ==
    /\ InCall ~> (pc[MainThread] \in {"idle", "tf_returned"})
    /\ \A w \in Workers : (mutex_.owner = w) ~> (mutex_.owner /= w)

C16_Witness ==
    /\ pc[MainThread] = "tf_returned"
    /\ \E w \in Workers : pc[w] = "in_load"
    /\ job_semaphore_.value > 0

\* the caller is inside TryFinalize
InTryFinalize ==
    pc[MainThread] \in {"tf_top", "tf_peek", "in_finalize", "tf_erase",
                        "tf_erase_locked", "tf_ret", "tf_ret_locked"}

\* C14: TryFinalize is idempotent: in a call of TryFinalize that follows a
\* call of TryFinalize, no job having been moved to the completed queue
\* since the first call returned, Finalize() is not called, neither queue
\* changes, and the call returns what the first call returned.
C14_TryFinalizeIdempotent ==
    [][(InTryFinalize /\ tf_check.prev /= "none"
                      /\ tf_check'.prev /= "none") =>
           /\ finalize_log' = finalize_log
           /\ queue_' = queue_
           /\ done_' = done_
           /\ pc'[MainThread] = "tf_returned" =>
                  tf_result' = (tf_check.prev = "true")]_vars

\* C19: for a valid range r and any x, r.Clamp(x) is at least r.start and at
\* most r.end, and it equals x exactly when r.Contains(x).
C19_ClampInRangeFixesContained ==
    (range_ret.op = "Clamp" /\ Valid(range_args.a)) =>
        /\ range_args.a.start_ <= range_ret.value
        /\ range_ret.value <= range_args.a.end_
        /\ (range_ret.value = range_args.x) <=> range_ret.flag

C19_Witness ==
    /\ range_ret.op = "Clamp"
    /\ Valid(range_args.a)
    /\ range_args.x > range_args.a.end_
    /\ range_ret.value = range_args.a.end_
    /\ Length(range_args.a) > 0

\* the gap between two valid ranges that share no point: from the end of
\* the lower one to the start of the upper one
Gap(a, b) == IF a.end_ < b.start_ THEN RangeT(a.end_, b.start_)
             ELSE RangeT(b.end_, a.start_)

\* C20: Intersect(a, b) is RangeT(max of the starts, min of the ends); for
\* valid a and b it is valid exactly when some x is in both, and then it
\* contains x exactly when both do; when no x is in both, its Invert() is
\* valid and is the gap between a and b.
C20_IntersectIsOverlapOrGap ==
    range_ret.op = "Intersect" =>
        LET a == range_args.a
            b == range_args.b
            i == range_ret.range
            share == \E x \in Scalars : Contains(a, x) /\ Contains(b, x)
        IN  /\ i.start_ = (IF a.start_ < b.start_ THEN b.start_ ELSE a.start_)
            /\ i.end_ = (IF b.end_ < a.end_ THEN b.end_ ELSE a.end_)
            /\ (Valid(a) /\ Valid(b)) =>
                   /\ range_ret.flag <=> share
                   /\ share => \A x \in Scalars :
                          Contains(i, x) <=> (Contains(a, x) /\ Contains(b, x))
                   /\ ~share => /\ Valid(Invert(i))
                                /\ Invert(i) = Gap(a, b)

C20_Witness ==
    /\ range_ret.op = "Intersect"
    /\ Valid(range_args.a)
    /\ Valid(range_args.b)
    /\ ~range_ret.flag
    /\ Length(Invert(range_ret.range)) = 2
    /\ range_args.b.end_ < range_args.a.start_

\* C21: Intersect is associative for all ranges a, b, c, valid or not.
C21_IntersectAssociative ==
    range_ret.op = "IntersectTwice" => range_ret.left = range_ret.right

C21_Witness ==
    /\ range_ret.op = "IntersectTwice"
    /\ Length(Intersect(range_args.a, range_args.b)) > 0
    /\ range_args.a /= range_args.b
    /\ ~Valid(range_args.c)
    /\ ~Valid(range_ret.left)
    /\ range_ret.left \notin {range_args.a, range_args.b, range_args.c}

\* the magnitude of a difference
Magnitude(v) == IF v < 0 THEN -v ELSE v

\* u and v differ by a whole number of lengths
Congruent(u, v, length) == \E k \in -3..3 : u - v = k * length

\* C22: for a valid range and b - a within one Length() of the bounds of
\* the range, the magnitudes of the close and the far difference add up to
\* Length(), and exactly one of the positive and the negative difference is
\* the close one: the positive one when the close one is >= 0, else the
\* negative one.
C22_FarComplementsClose ==
    (/\ range_ret.op = "ModDiff"
     /\ Valid(range_args.r)
     /\ range_args.r.start_ - Length(range_args.r)
            <= range_args.b - range_args.a
     /\ range_args.b - range_args.a
            <= range_args.r.end_ + Length(range_args.r)) =>
        LET close == range_ret.diff["kDirectionClosest"]
            far == range_ret.diff["kDirectionFarthest"]
            positive == range_ret.diff["kDirectionPositive"]
            negative == range_ret.diff["kDirectionNegative"]
        IN  /\ Magnitude(close) + Magnitude(far) = Length(range_args.r)
            /\ close >= 0 => (positive = close /\ negative /= close)
            /\ close < 0 => (negative = close /\ positive /= close)

\* C23: for a valid range and a, b for which the assert of Normalize holds,
\* the closest difference is congruent to b - a modulo Length() and its
\* magnitude is at most that of the farthest difference.
C23_ClosestIsMinimal ==
    (range_ret.op = "ModDiff" /\ Valid(range_args.r) /\ range_ret.flag) =>
        LET close == range_ret.diff["kDirectionClosest"]
            far == range_ret.diff["kDirectionFarthest"]
        IN  /\ Congruent(close, range_args.b - range_args.a,
                         Length(range_args.r))
            /\ Magnitude(close) <= Magnitude(far)

\* C24: for a valid range and a, b for which the assert of Normalize holds,
\* the positive difference is >= 0 and the negative difference is <= 0,
\* both congruent to b - a modulo Length(), and the direct difference is
\* b - a.
C24_SignForcedDifferences ==
    (range_ret.op = "ModDiff" /\ Valid(range_args.r) /\ range_ret.flag) =>
        LET positive == range_ret.diff["kDirectionPositive"]
            negative == range_ret.diff["kDirectionNegative"]
            direct == range_ret.diff["kDirectionDirect"]
            length == Length(range_args.r)
        IN  /\ positive >= 0
            /\ negative <= 0
            /\ Congruent(positive, range_args.b - range_args.a, length)
            /\ Congruent(negative, range_args.b - range_args.a, length)
            /\ direct = range_args.b - range_args.a

\* C25: for a valid range with Length() > 0 and start - Length() <= x <=
\* end + Length(), the assert of ModularAdjustment holds, Normalize(x) is in
\* the range and differs from x by -Length(), 0 or +Length().
C25_NormalizeWithinOneLength ==
    (/\ range_ret.op = "Normalize"
     /\ Valid(range_args.r)
     /\ Length(range_args.r) > 0
     /\ range_args.r.start_ - Length(range_args.r) <= range_args.x
     /\ range_args.x <= range_args.r.end_ + Length(range_args.r)) =>
        /\ range_ret.flag
        /\ Contains(range_args.r, range_ret.value)
        /\ range_ret.value - range_args.x \in
               {-Length(range_args.r), 0, Length(range_args.r)}

\* C26: for a valid range ModularAdjustment(x) is Length() when x is below
\* the range, -Length() when x is above it, and 0 when the range contains x.
C26_AdjustmentZeroWhenContained ==
    (range_ret.op = "Normalize" /\ Valid(range_args.r)) =>
        range_ret.adjustment =
            (IF range_args.x < range_args.r.start_ THEN Length(range_args.r)
             ELSE IF range_args.x > range_args.r.end_
                    THEN -Length(range_args.r)
                    ELSE 0)

\* the intersections of all pairs (a[i], b[j]), row by row: i outer, j inner
AllPairsRowMajor(a, b) ==
    [k \in 1..(Len(a) * Len(b)) |->
        Intersect(a[((k - 1) \div Len(b)) + 1], b[((k - 1) % Len(b)) + 1])]

\* C27: IntersectRanges writes the valid ones among the len_a x len_b
\* intersections, taken row by row, to the output in that order and returns
\* their number; when gaps are requested it writes the invalid ones,
\* inverted, to gaps in that order, every gap is a valid range, and the
\* intersections and the gaps are len_a * len_b together.
C27_IntersectRangesRowMajor ==
    range_ret.op = "IntersectRanges" =>
        LET all == AllPairsRowMajor(range_args.arr_a, range_args.arr_b)
            invalid == SelectSeq(all, LAMBDA r : ~Valid(r))
            out == range_ret.out
        IN  /\ out.intersections = SelectSeq(all, Valid)
            /\ out.num_intersections = Len(out.intersections)
            /\ range_args.use_gaps =>
                   /\ out.gaps = [k \in 1..Len(invalid) |-> Invert(invalid[k])]
                   /\ \A k \in 1..Len(out.gaps) : Valid(out.gaps[k])
                   /\ out.len_gaps = Len(out.gaps)
                   /\ out.num_intersections + out.len_gaps =
                          Len(range_args.arr_a) * Len(range_args.arr_b)

C27_Witness ==
    /\ range_ret.op = "IntersectRanges"
    /\ range_args.use_gaps
    /\ Len(range_args.arr_a) = 2
    /\ Len(range_args.arr_b) = 2
    /\ range_ret.out.num_intersections = 2
    /\ range_ret.out.len_gaps = 2
    /\ range_ret.out.intersections[1] /= range_ret.out.intersections[2]
    /\ Length(range_ret.out.gaps[1]) > 0

\* C28: Roots returns 0, 1 or 2 real roots in ascending order: with
\* |c2| < Epsilon() one root if |c1| >= Epsilon() and none otherwise; else
\* none for a negative reliable discriminant, the critical point for a zero
\* one, two distinct ascending roots for a positive one. RootsInRange
\* returns those of them that x_limits contains, in the same order.
C28_RootsRealAscending ==
    curve_ret.op = "RootsInRange" =>
        LET c == curve_args.c
            roots == curve_ret.roots
        IN  /\ Len(roots) \in 0..2
            /\ \A k \in 1..Len(roots) :
                  /\ roots[k].kind = "finite"
                  /\ EvaluateScaled(c, roots[k].v, XScale) = 0
            /\ Len(roots) = 2 => roots[1].v < roots[2].v
            /\ IF BelowEpsilon(c, c[2])
                 THEN Len(roots) = IF BelowEpsilon(c, c[1]) THEN 0 ELSE 1
               ELSE /\ ReliableDiscriminant(c) < 0 => Len(roots) = 0
                    /\ ReliableDiscriminant(c) = 0 =>
                          roots = <<CriticalPoint(c)>>
                    /\ ReliableDiscriminant(c) > 0 => Len(roots) = 2
            /\ curve_ret.in_range =
                  SelectSeq(roots, LAMBDA x : x.kind = "finite"
                                /\ curve_args.x_limits.start_ <= x.v
                                /\ x.v <= curve_args.x_limits.end_)

\* the zeros of the curve, among the values of x of magnitude below 2 * MaxCoeff
ZerosOf(c) ==
    {n \in (-2 * MaxCoeff * XScale)..(2 * MaxCoeff * XScale) :
        EvaluateScaled(c, n, XScale) = 0}

\* C29: for a curve with two real roots r0 < r1 and valid x_limits,
\* RangesAboveZero and RangesBelowZero each return at most 2 ranges, every
\* one of them valid, within x_limits and bounded by r0, r1 or the limits,
\* with the curve positive (above) or negative (below) at its middle; the
\* ranges overlap in no more than a point, and every x of x_limits where the
\* curve is not zero lies in a range of the call that asks for its sign.
C29_SignRangesPartitionLimits ==
    (/\ curve_ret.op = "RangesAboveBelowZero"
     /\ Valid(curve_args.x_limits)
     /\ curve_args.c[2] /= 0
     /\ Cardinality(ZerosOf(curve_args.c)) = 2) =>
        LET c == curve_args.c
            x_limits == curve_args.x_limits
            above == curve_ret.above
            below == curve_ret.below
            all == above \o below
            bounds == ZerosOf(c) \cup {x_limits.start_, x_limits.end_}
            Middle2(r) == EvaluateScaled(c, r.start_ + r.end_, 2 * XScale)
            In(s, x) == \E k \in 1..Len(s) : Contains(s[k], x)
        IN  /\ Len(above) <= 2
            /\ Len(below) <= 2
            /\ \A k \in 1..Len(all) :
                  /\ Valid(all[k])
                  /\ x_limits.start_ <= all[k].start_
                  /\ all[k].end_ <= x_limits.end_
                  /\ all[k].start_ \in bounds
                  /\ all[k].end_ \in bounds
            /\ \A k \in 1..Len(above) : Middle2(above[k]) > 0
            /\ \A k \in 1..Len(below) : Middle2(below[k]) < 0
            /\ \A j, k \in 1..Len(all) :
                  j /= k => Length(Intersect(all[j], all[k])) <= 0
            /\ \A x \in x_limits.start_..x_limits.end_ :
                  /\ EvaluateScaled(c, x, XScale) > 0 =>
                        In(above, x) /\ ~In(below, x)
                  /\ EvaluateScaled(c, x, XScale) < 0 =>
                        In(below, x) /\ ~In(above, x)

C29_Witness ==
    /\ curve_ret.op = "RangesAboveBelowZero"
    /\ Cardinality(ZerosOf(curve_args.c)) = 2
    /\ \A x \in ZerosOf(curve_args.c) :
          curve_args.x_limits.start_ < x /\ x < curve_args.x_limits.end_
    /\ Len(curve_ret.above) = 2
    /\ Len(curve_ret.below) = 1
    /\ Length(curve_ret.below[1]) % XScale /= 0

LargestTerm(c, w) ==
    Max(Max(fabs(c[3]) * w * w * w, fabs(c[2]) * w * w),
        Max(fabs(c[1]) * w, fabs(c[0])))
LargestSlopeTerm(c, w) ==
    Max(Max(3 * fabs(c[3]) * w * w, 2 * fabs(c[2]) * w), fabs(c[1]))

LoadedByWorker(r) ==
    \E i \in 1..Len(load_log) :
        /\ load_log[i] = Event("ret", r, load_log[i].thread)
        /\ load_log[i].thread \in Workers
FinalizedOnMain(r) ==
    \E i \in 1..Len(finalize_log) :
        finalize_log[i] = Event("ret", r, MainThread)

\* C31: when the game's check in kLoading reads true from TryFinalize (and
\* the game starts the fade to the next state), every texture queued before
\* the loader was started has been loaded by the worker and finalized on the
\* main thread.
C31_LeavesLoadingWithAllFinalized ==
    (pc[MainThread] = "tf_returned" /\ tf_result /\ worker_thread_ /= nullptr)
        => \A r \in Range(submitted) : LoadedByWorker(r) /\ FinalizedOnMain(r)

\* C32: while a Load() is in progress the job being loaded is at the head
\* of the pending queue, and TryFinalize has not returned true.
C32_LoadingJobStaysAtHead ==
    \A w \in Workers :
        pc[w] = "in_load" =>
            /\ queue_ /= <<>>
            /\ queue_[1] = res[w]
            /\ ~(pc[MainThread] = "tf_returned" /\ tf_result)

C32_Witness ==
    /\ \E w \in Workers : pc[w] = "in_load"
    /\ pc[MainThread] = "tf_returned"
    /\ ~tf_result
    /\ Len(queue_) = 1
    /\ done_ = <<>>
    /\ finalized /= <<>>

\* C33: once StopLoadingWhenComplete has pushed the sentinel, the sentinel
\* is in the pending queue in every later state, and every TryFinalize that
\* returns after that returns false.
C33_SentinelStaysFinalizeFalse ==
    bookend \in Range(submitted) =>
        /\ bookend \in Range(queue_)
        /\ pc[MainThread] = "tf_returned" => ~tf_result

\* one StartLoading, the worker has exited at the sentinel, every real job
\* has been loaded and finalized, and TryFinalize has returned false
C33_Witness ==
    /\ stops = 1
    /\ pc[1] = "exited"
    /\ pc[2] = "unborn"
    /\ queue_ = <<bookend>>
    /\ done_ = <<>>
    /\ Range(finalized) = Resources
    /\ pc[MainThread] = "tf_returned"
    /\ ~tf_result

\* the resource of the last return logged
LastReturn(log) == Returns(log)[Len(Returns(log))].res

\* C34: the entry erased from the front of the pending queue is the job the
\* erasing worker has just loaded, and it goes to the back of the completed
\* queue; the entry erased from the front of the completed queue is the job
\* whose Finalize() has just returned on the erasing thread; nothing else
\* shortens either queue.
C34_FrontStable ==
    [][/\ Len(queue_') < Len(queue_) =>
              \E w \in Workers :
                  /\ pc[w] = "move_locked"
                  /\ queue_[1] = res[w]
                  /\ LastReturn(load_log) = res[w]
                  /\ queue_' = Tail(queue_)
                  /\ done_' = Append(done_, res[w])
       /\ Len(done_') < Len(done_) =>
              /\ pc[MainThread] = "tf_erase_locked"
              /\ done_[1] = res[MainThread]
              /\ LastReturn(finalize_log) = res[MainThread]
              /\ done_' = Tail(done_)]_vars

\* TryFinalize is about to erase the job it finalized while the worker has
\* already put the second job behind it; the sentinel is queued too
C34_Witness ==
    /\ pc[MainThread] = "tf_erase_locked"
    /\ Len(done_) = 2
    /\ done_[1] = res[MainThread]
    /\ bookend \in Range(queue_)

\* how many times r occurs in s
Occurrences(s, r) == Cardinality({i \in 1..Len(s) : s[i] = r})

\* C35: every real job that has been queued is in exactly one of the
\* pending queue, the completed queue and the finalized jobs, and there
\* once.
C35_JobConservation ==
    \A r \in Range(submitted) :
        ~IsBookend(r) =>
            Occurrences(queue_, r) + Occurrences(done_, r)
                + Occurrences(finalized, r) = 1

\* one job finalized, the other loaded and about to be moved
C35_Witness ==
    /\ Len(finalized) = 1
    /\ done_ = <<>>
    /\ \E w \in Workers : pc[w] = "move_locked" /\ queue_[1] = res[w]
    /\ Len(submitted) > MaxJobs

\* C36: an entry is the shutdown sentinel exactly when its file name is
\* "bookend": a worker that has exited has stopped at an entry of that name,
\* and no resource of that name, the loader's own bookend or a user
\* resource, is ever passed to Load() or moved to the completed queue; every
\* entry a worker goes on to load has another name.
C36_SentinelIsByFileName ==
    /\ \A w \in Workers :
           /\ pc[w] = "exited" => filename[res[w]] = <<"bookend">>
           /\ pc[w] \in {"in_load", "move", "move_locked"} =>
                  filename[res[w]] /= <<"bookend">>
    /\ \A r \in AllResources :
           filename[r] = <<"bookend">> =>
               /\ r \notin Range(ResOf(load_log))
               /\ r \notin Range(done_ \o finalized)

\* the worker has loaded a job and then exited at a user resource named
\* "bookend", which stays at the head of the pending queue
C36_Witness ==
    /\ \E w \in Workers :
           /\ pc[w] = "exited"
           /\ res[w] \in Resources
           /\ queue_ /= <<>>
           /\ queue_[1] = res[w]
    /\ stops = 0
    /\ Len(LoadReturns) = 1

\* ============================================================ PieNoonGame
(***************************************************************************)
(* The state machine of PieNoonGame (pie_noon_game.cpp).  The game object  *)
(* is one record, `game`, with the members the state machine reads; a      *)
(* member function is an operator from the object (and the inputs of the   *)
(* frame) to the object it leaves.  Run() is one action for its start, one *)
(* for each kind of frame of its loop, and one for the end of the loop.    *)
(* What the frame reads from outside the class (buttons, menu selections,  *)
(* the clock, the material manager, the network) is an input of the frame. *)
(* An assertion that fails is recorded in assert_failed and ends the run:  *)
(* the frame is computed to its end, as a build without assertions runs    *)
(* it, and no frame follows, as in a build with assertions.                *)
(***************************************************************************)
\* config.character_count()
MaxCharacters == 2
\* menu selections gui_menu_ hands out in one frame
MaxSelections == 1
\* multiplayer messages that arrive in one frame
MaxMessages == 1
\* the tutorial slides that are shown before the model stops counting
MaxSlideIndex == 1

\* ControlScheme::kDefinedControlSchemeCount keyboard controllers
kDefinedControlSchemeCount == 1
\* config.tutorial_slides()->Length()
NumTutorialSlides == 1

kNoCharacter == -1
\* the ControllerId of a selection made by touch, which is no index
kTouchController == -2

\* active_controllers_ in the order InitializeGameState adds them: the
\* keyboard controllers, the touch controller, the cardboard controller,
\* an AiController for every character, and as many MultiplayerControllers
Characters == 0..(MaxCharacters - 1)
touch_controller_ == kDefinedControlSchemeCount
cardboard_controller_ == kDefinedControlSchemeCount + 1
AiControllers ==
    (kDefinedControlSchemeCount + 2)..(kDefinedControlSchemeCount + 1
                                          + MaxCharacters)
MultiplayerControllers ==
    (kDefinedControlSchemeCount + 2 + MaxCharacters)..
        (kDefinedControlSchemeCount + 1 + 2 * MaxCharacters)
Controllers == 0..(kDefinedControlSchemeCount + 1 + 2 * MaxCharacters)

controller_type(c) ==
    IF c \in AiControllers THEN "kTypeAI"
    ELSE IF c \in MultiplayerControllers THEN "kTypeMultiplayer"
    ELSE "kTypePlayer"

\* history: UpdatePieNoonState() has read no BACK press in
\* kMultiscreenClient
NoBackPress == [ret |-> "kUninitialized"]

\* handed_back is history too: the characters the last call of
\* TransitionToPieNoonState took from a player and gave to an AI controller

\* the object after PieNoonGame() and Initialize(): character i is
\* controlled by the i-th AiController, every other controller is free
GameInitialized(gpg, displayed) ==
    [pc |-> "initialized",
     PIE_NOON_USES_GOOGLE_PLAY_GAMES |-> gpg,
     state_ |-> "kUninitialized",
     fade_exit_state_ |-> "kUninitialized",
     fader_finished |-> TRUE,
     menu_def |-> "nullptr",
     is_multiscreen |-> FALSE,
     is_in_cardboard |-> FALSE,
     character_id |-> [c \in Controllers |->
                          IF c \in AiControllers
                          THEN c - (kDefinedControlSchemeCount + 2)
                          ELSE kNoCharacter],
     controller |-> [i \in Characters |-> kDefinedControlSchemeCount + 2 + i],
     join_id_ |-> "ButtonId_Undefined",
     tutorial_slide_index_ |-> 0,
     displayed_tutorial |-> displayed,
     exit_requested_ |-> FALSE,
     assert_failed |-> {},
     back_press |-> NoBackPress,
     handed_back |-> 0]

\* assert(condition) at the place named
assertion(g, condition, place) ==
    IF condition THEN g
    ELSE [g EXCEPT !.assert_failed = @ \cup {place}]

\* gui_menu_.Setup(menu_def, &matman_)
Setup(g, menu_def) == [g EXCEPT !.menu_def = menu_def]

Fading(g) == g.fade_exit_state_ /= "kUninitialized"

\* FadeToPieNoonState(next_state, ...)
FadeToPieNoonState(g, next_state) ==
    IF ~Fading(g)
    THEN [g EXCEPT !.fader_finished = FALSE, !.fade_exit_state_ = next_state]
    ELSE g

\* the first free AI controller of active_controllers_, or kNoCharacter
FreeAiControllers(g) ==
    {c \in AiControllers : g.character_id[c] = kNoCharacter}

First(S) == CHOOSE x \in S : \A y \in S : x <= y

\* the body of the loop over the characters in case kFinished, from
\* character i on
RECURSIVE AssignAiControllersFrom(_, _)
AssignAiControllersFrom(g, i) ==
    IF i >= MaxCharacters THEN g
    ELSE IF controller_type(g.controller[i]) = "kTypeAI"
    THEN AssignAiControllersFrom(g, i + 1)
    ELSE LET free == FreeAiControllers(g)
             g1 == IF free = {} THEN g
                   ELSE LET it == First(free)
                        IN  [g EXCEPT
                                !.character_id =
                                    [@ EXCEPT ![g.controller[i]] = kNoCharacter,
                                              ![it] = i],
                                !.controller = [@ EXCEPT ![i] = it]]
             g2 == assertion(g1, controller_type(g1.controller[i]) = "kTypeAI",
                          "controller_type() == kTypeAI")
         IN  AssignAiControllersFrom(g2, i + 1)

\* TransitionToPieNoonState(next_state)
TransitionToPieNoonState(g, next_state) ==
    LET g0 == assertion(g, g.state_ /= next_state, "state_ != next_state")
        g1 ==
            CASE next_state = "kJoining" ->
                     IF ~g0.is_multiscreen
                     THEN \* InitCountdownImage resets join_id_
                          [Setup(g0, "join_screen_buttons")
                              EXCEPT !.join_id_ = "ButtonId_Undefined"]
                     ELSE g0
              [] next_state = "kPlaying" ->
                     IF g0.is_multiscreen
                     THEN Setup(g0, "multiplayer_host")
                     ELSE Setup(g0,
                                IF g0.character_id[touch_controller_]
                                       = kNoCharacter
                                THEN "nullptr" ELSE "touchscreen_zones")
              [] next_state = "kPaused" -> Setup(g0, "pause_screen_buttons")
              [] next_state = "kFinished" ->
                     AssignAiControllersFrom(
                         IF g0.state_ = "kTutorial" /\ g0.is_multiscreen
                         THEN Setup(g0, "msx_screen_buttons")
                         ELSE IF g0.is_in_cardboard
                         THEN Setup(g0, "cardboard_screen_buttons")
                         ELSE Setup(g0, "TitleScreenButtons"), 0)
              [] next_state = "kTutorial" ->
                     [g0 EXCEPT !.tutorial_slide_index_ = 0]
              [] next_state \in {"kLoadingInitialMaterials", "kLoading",
                                 "kMultiplayerWaiting",
                                 "kMultiscreenClient"} -> g0
              [] OTHER -> assertion(g0, FALSE,
                                    "TransitionToPieNoonState default")
        ai(h) == {i \in Characters : controller_type(h.controller[i])
                                         = "kTypeAI"}
    IN  [g1 EXCEPT !.state_ = next_state,
                   !.handed_back = Cardinality(ai(g1) \ ai(g0))]

\* what a member function leaves and returns
Ret(g, value) == [g |-> g, ret |-> value]

\* FindAiPlayer()
FindAiPlayer(g) ==
    LET ai == {char_id \in Characters :
                   controller_type(g.controller[char_id]) = "kTypeAI"}
    IN  IF ai = {} THEN kNoCharacter ELSE First(ai)

\* the mutant: the controller joins without the character's old controller
\* being released
HandlePlayersJoiningKeepsOld(g, controller) ==
    IF \/ g.character_id[controller] /= kNoCharacter
       \/ controller_type(controller) = "kTypeAI"
    THEN g
    ELSE LET open_slot == FindAiPlayer(g)
         IN  IF open_slot = kNoCharacter THEN g
             ELSE [g EXCEPT
                      !.character_id = [@ EXCEPT ![controller] = open_slot],
                      !.controller = [@ EXCEPT ![open_slot] = controller]]

\* HandlePlayersJoining(controller)
HandlePlayersJoining(g, controller) ==
    IF \/ g.character_id[controller] /= kNoCharacter
       \/ controller_type(controller) = "kTypeAI"
    THEN g
    ELSE LET open_slot == FindAiPlayer(g)
         IN  IF open_slot = kNoCharacter THEN g
             ELSE [g EXCEPT
                      !.character_id =
                          [@ EXCEPT ![g.controller[open_slot]] = kNoCharacter,
                                    ![controller] = open_slot],
                      !.controller = [@ EXCEPT ![open_slot] = controller]]

\* the loop of HandlePlayersJoining() or of AttachMultiplayerControllers()
\* over active_controllers_, from controller c on; `joining` are the
\* controllers the loop passes on to HandlePlayersJoining(controller)
RECURSIVE JoinFrom(_, _, _)
JoinFrom(g, joining, c) ==
    IF c \notin Controllers THEN g
    ELSE JoinFrom(IF c \in joining THEN HandlePlayersJoining(g, c) ELSE g,
                  joining, c + 1)

\* HandlePlayersJoining(): has_input are the controllers with went_up() or
\* went_down()
HandlePlayersJoiningAll(g, has_input) == JoinFrom(g, has_input, 0)

AttachMultiplayerControllers(g) == JoinFrom(g, MultiplayerControllers, 0)

\* StartMultiscreenGameAsHost()
StartMultiscreenGameAsHost(g) == TransitionToPieNoonState(g, "kJoining")

\* StartMultiscreenGameAsClient(id)
StartMultiscreenGameAsClient(g) ==
    TransitionToPieNoonState(Setup(g, "multiplayer_client"),
                             "kMultiscreenClient")

\* the buttons the frames select: those HandleMenuButtons acts on, and
\* ButtonId_InvalidInput for those it only reports, plays a sound for or
\* uses to aim in a multiscreen game (ButtonId_MenuSignIn, _MenuLicense,
\* _MenuAbout, _MenuAchievements, _MenuLeaderboard, _Multiplayer_Button1..4)
ButtonIds ==
    {"ButtonId_MenuStart", "ButtonId_MenuResume", "ButtonId_MenuExtras",
     "ButtonId_MenuGameModes", "ButtonId_MenuMultiScreen",
     "ButtonId_MenuMultiScreenJoin", "ButtonId_MenuMultiScreenHost",
     "ButtonId_MenuCardboard", "ButtonId_MenuBack", "ButtonId_MenuHowToPlay",
     "ButtonId_InvalidInput"}

\* HandleMenuButtons(time), from a selection of its loop over
\* gui_menu_.GetRecentSelection() on, with the selections still to come
RECURSIVE HandleMenuButtons(_, _, _)
HandleMenuButtons(g, in, selections) ==
    IF selections = <<>> THEN Ret(g, g.state_)
    ELSE
    LET menu_selection == Head(selections)
        id == menu_selection.button_id
        gpg == g.PIE_NOON_USES_GOOGLE_PLAY_GAMES
        next(g1) == HandleMenuButtons(g1, in, Tail(selections))
    IN  CASE id = "ButtonId_MenuStart" ->
                 IF /\ gpg
                    /\ g.state_ = "kMultiplayerWaiting"
                    /\ in.is_hosting
                    /\ in.connected_players
                 THEN Ret(AttachMultiplayerControllers(
                              StartMultiscreenGameAsHost(g)), "kPlaying")
                 ELSE IF g.state_ = "kFinished"
                 THEN LET g1 == [g EXCEPT !.is_multiscreen = FALSE]
                      IN  IF g1.is_in_cardboard
                          THEN Ret(HandlePlayersJoining(
                                       g1, cardboard_controller_), "kPlaying")
                          ELSE IF menu_selection.controller_id
                                      = kTouchController
                          THEN Ret(HandlePlayersJoining(
                                       g1, touch_controller_), "kPlaying")
                          ELSE Ret(g1, "kJoining")
                 ELSE next(g)
          [] id = "ButtonId_MenuResume" ->
                 IF g.state_ = "kPaused" THEN Ret(g, "kPlaying") ELSE next(g)
          [] id = "ButtonId_MenuExtras" ->
                 next(Setup([g EXCEPT !.is_multiscreen = FALSE],
                            "extras_screen_buttons"))
          [] id = "ButtonId_MenuGameModes" ->
                 next(Setup(g, "game_modes_screen_buttons"))
          [] id = "ButtonId_MenuMultiScreen" ->
                 next(Setup([g EXCEPT !.is_multiscreen = TRUE],
                            "msx_screen_buttons"))
          [] id = "ButtonId_MenuMultiScreenJoin" ->
                 IF gpg
                 THEN next(Setup(TransitionToPieNoonState(
                                     g, "kMultiplayerWaiting"),
                                 "msx_searching_screen_buttons"))
                 ELSE next(g)
          [] id = "ButtonId_MenuMultiScreenHost" ->
                 IF gpg
                 THEN next(Setup(TransitionToPieNoonState(
                                     g, "kMultiplayerWaiting"),
                                 "msx_waitingforplayers_screen_buttons"))
                 ELSE next(g)
          [] id = "ButtonId_MenuCardboard" ->
                 next(Setup(TransitionToPieNoonState(
                                [g EXCEPT !.is_in_cardboard = TRUE],
                                "kFinished"),
                            "cardboard_screen_buttons"))
          [] id = "ButtonId_MenuBack" ->
                 LET g1 == IF g.state_ = "kMultiplayerWaiting"
                           THEN TransitionToPieNoonState(g, "kFinished")
                           ELSE g
                     g2 == IF g1.is_in_cardboard
                           THEN TransitionToPieNoonState(
                                    [g1 EXCEPT !.is_in_cardboard = FALSE],
                                    "kFinished")
                           ELSE g1
                 IN  next(Setup(g2, "TitleScreenButtons"))
          [] id = "ButtonId_MenuHowToPlay" -> Ret(g, "kTutorial")
          [] OTHER -> next(g)

\* UpdateCountdownImage(time); id is CurrentlyAnimatingJoinImage(time),
\* "before" for an id below ButtonId_Counter1
UpdateCountdownImage(g, id) ==
    IF id = "before" THEN g
    ELSE IF id /= g.join_id_ THEN [g EXCEPT !.join_id_ = id]
    ELSE g

\* UpdatePieNoonState(): in.opaque is full_screen_fader_.Render(time),
\* fader_finished is full_screen_fader_.Finished(time)
UpdatePieNoonState(g0, in) ==
    LET state_ == g0.state_
        g == IF Fading(g0) /\ g0.fader_finished
             THEN [g0 EXCEPT !.fade_exit_state_ = "kUninitialized"] ELSE g0
    IN  IF Fading(g0) /\ in.opaque THEN Ret(g0, g0.fade_exit_state_) ELSE
        CASE state_ = "kLoadingInitialMaterials" ->
                 Ret(IF in.textures_loaded
                     THEN FadeToPieNoonState(g, "kLoading") ELSE g, state_)
          [] state_ = "kLoading" ->
                 Ret(IF ~Fading(g) /\ in.TryFinalize /\ in.min_loading_time
                     THEN FadeToPieNoonState(
                              g, IF g.displayed_tutorial = 1 THEN "kFinished"
                                 ELSE "kTutorial")
                     ELSE g, state_)
          [] state_ = "kJoining" ->
                 IF ~g.is_multiscreen
                 THEN LET g1 == UpdateCountdownImage(
                                    HandlePlayersJoiningAll(g, in.has_input),
                                    in.join_image)
                      IN  Ret(IF g1.join_id_ = "ButtonId_Undefined"
                              THEN FadeToPieNoonState(g1, "kPlaying")
                              ELSE g1, state_)
                 ELSE Ret(g, "kPlaying")
          [] state_ = "kPlaying" ->
                 IF in.pause THEN Ret(g, "kPaused")
                 ELSE IF in.game_over
                 THEN Ret(g, IF g.is_multiscreen THEN "kMultiplayerWaiting"
                             ELSE "kFinished")
                 ELSE Ret(g, state_)
          [] state_ = "kPaused" ->
                 IF in.back
                 THEN Ret(Setup(g, "TitleScreenButtons"), "kFinished")
                 ELSE HandleMenuButtons(g, in, in.selections)
          [] state_ = "kMultiplayerWaiting" ->
                 IF in.back
                 THEN Ret(Setup(g, "msx_screen_buttons"), "kFinished")
                 ELSE HandleMenuButtons(g, in, in.selections)
          [] state_ = "kFinished" ->
                 HandleMenuButtons(
                     IF ~in.back THEN g
                     ELSE IF g.menu_def \in {"extras_screen_buttons",
                                             "msx_screen_buttons",
                                             "game_modes_screen_buttons"}
                     THEN Setup(g, "TitleScreenButtons")
                     ELSE IF g.is_in_cardboard
                     THEN [Setup(g, "TitleScreenButtons")
                              EXCEPT !.is_in_cardboard = FALSE]
                     ELSE [g EXCEPT !.exit_requested_ = TRUE],
                     in, in.selections)
          [] state_ = "kTutorial" ->
                 IF g.tutorial_slide_index_ >= NumTutorialSlides /\ ~Fading(g)
                 THEN IF ~g.is_multiscreen
                      THEN Ret(FadeToPieNoonState(
                                   [g EXCEPT !.displayed_tutorial = 1],
                                   "kFinished"), state_)
                      ELSE Ret(Setup(g, "msx_screen_buttons"), "kFinished")
                 ELSE Ret(g, state_)
          [] state_ = "kMultiscreenClient" ->
                 IF in.back
                 THEN \* no break: control falls into the default label
                      Ret(assertion(Setup(g, "msx_screen_buttons"), FALSE,
                                    "UpdatePieNoonState default"), state_)
                 ELSE HandleMenuButtons(g, in, in.selections)
          [] OTHER ->
                 Ret(assertion(g, FALSE, "UpdatePieNoonState default"), state_)

\* UpdatePieNoonStateAndTransition(); back_press is the history of a call
\* of UpdatePieNoonState() that read a BACK press in kMultiscreenClient:
\* what it returned
TransitionToUpdated(g, in, next) ==
    LET g1 == [next.g EXCEPT !.back_press =
                                 IF /\ in.back
                                    /\ g.state_ = "kMultiscreenClient"
                                    /\ ~(Fading(g) /\ in.opaque)
                                 THEN [ret |-> next.ret]
                                 ELSE NoBackPress]
    IN  Ret(IF next.ret /= g1.state_
            THEN TransitionToPieNoonState(g1, next.ret)
            ELSE g1, next.ret)

\* next_state = UpdatePieNoonState(), then the transition if it differs
UpdatePieNoonStateAndTransition(g, in) ==
    TransitionToUpdated(g, in, UpdatePieNoonState(g, in))

\* --------------------------------------------------------- PieNoonGame::Run
\* sequences of at most n elements of S
RECURSIVE SeqsUpTo(_, _)
SeqsUpTo(S, n) ==
    IF n = 0 THEN {<<>>}
    ELSE SeqsUpTo(S, n - 1)
             \cup {Append(s, x) : s \in SeqsUpTo(S, n - 1) \ {<<>>}, x \in S}
             \cup {<<x>> : x \in S}

\* BOOLEAN where the frame reads the input, FALSE where it does not
Read(condition) == IF condition THEN BOOLEAN ELSE {FALSE}

\* what the frame reads from gpg_multiplayer_ before it looks at the
\* connection: is_hosting(), GetNumConnectedPlayers() >= 1 (which only a
\* host reads), state() (which only a client reads) and the messages a
\* host sends to the clients of a multiscreen game
NetInputs(g) ==
    LET gpg == g.PIE_NOON_USES_GOOGLE_PLAY_GAMES
        waiting == gpg /\ g.state_ = "kMultiplayerWaiting"
    IN  {net \in
            [is_hosting : Read(waiting),
             connected_players : Read(waiting),
             state : IF waiting
                     THEN {"kIdle", "kDiscovering", "kDiscoveringPromptedUser",
                           "kDiscoveringWaitingForHost", "kConnected"}
                     ELSE {"kIdle"},
             messages : IF gpg /\ g.is_multiscreen
                        THEN SeqsUpTo({"Data_PlayerAssignment",
                                       "Data_EndGame"}, MaxMessages)
                        ELSE {<<>>}] :
            /\ net.connected_players => net.is_hosting
            /\ net.is_hosting => net.state = "kIdle"}

\* IsConnected() and HasError() of gpg_multiplayer_, which the frame of a
\* multiscreen host that is playing and the frame of a client read
ConnectionInputs(g) ==
    LET read == /\ g.PIE_NOON_USES_GOOGLE_PLAY_GAMES
                /\ \/ g.is_multiscreen /\ g.state_ = "kPlaying"
                   \/ g.state_ = "kMultiscreenClient"
    IN  {conn \in [IsConnected : IF read THEN BOOLEAN ELSE {TRUE},
                   HasError : Read(read)] :
            conn.HasError => ~conn.IsConnected}

\* the menu selections of a frame; the controller matters to
\* ButtonId_MenuStart only
MenuSelections ==
    {[button_id |-> id, controller_id |-> c] :
        id \in ButtonIds, c \in {kTouchController, 0}}
        \ {s \in [button_id : ButtonIds, controller_id : {kTouchController}] :
               s.button_id /= "ButtonId_MenuStart"}

\* what UpdatePieNoonState reads in the state the object is in; running is
\* whether a fade was under way when the frame began.  A fade that turns
\* opaque returns before anything else is read, a BACK press in kPaused or
\* kMultiplayerWaiting returns before the menu is read, an AI controller
\* is turned away by HandlePlayersJoining(controller), and a
\* MultiplayerController has input in a multiscreen game only
UpdateInputs(g, net, running) ==
    LET in_menu == g.state_ \in {"kPaused", "kMultiplayerWaiting",
                                 "kFinished", "kMultiscreenClient"}
        joining == g.state_ = "kJoining" /\ ~g.is_multiscreen
    IN  {in \in
            [back : Read(in_menu),
             pause : Read(g.state_ = "kPlaying"),
             game_over : Read(g.state_ = "kPlaying"),
             selections : IF in_menu
                          THEN SeqsUpTo(MenuSelections, MaxSelections)
                          ELSE {<<>>},
             has_input : IF joining
                         THEN SUBSET (Controllers \ (AiControllers
                                          \cup MultiplayerControllers))
                         ELSE {{}},
             join_image : IF joining
                          THEN {"before", "ButtonId_Counter1",
                                "ButtonId_Undefined"}
                          ELSE {"before"},
             textures_loaded : Read(g.state_ = "kLoadingInitialMaterials"),
             TryFinalize : Read(g.state_ = "kLoading"),
             min_loading_time : Read(g.state_ = "kLoading"),
             opaque : Read(Fading(g) /\ running),
             is_hosting : {net.is_hosting},
             connected_players : {net.connected_players}] :
            /\ in.back /\ g.state_ \in {"kPaused", "kMultiplayerWaiting"}
                   => in.selections = <<>>
            /\ in.game_over => ~in.pause
            /\ in.min_loading_time => in.TryFinalize
            /\ in.opaque =>
                   /\ ~in.back /\ ~in.pause /\ ~in.game_over
                   /\ ~in.textures_loaded /\ ~in.TryFinalize
                   /\ in.selections = <<>> /\ in.has_input = {}
                   /\ in.join_image = "before"}

\* the clock of the frame: a fade that is under way may have come to its end
Tick(g, fade_done) == [g EXCEPT !.fader_finished = @ \/ fade_done]

\* Run(), case kMultiplayerWaiting: show the screen of the connection
ShowMultiplayerWaitingScreen(g, net) ==
    LET show(menu_def) == IF g.menu_def /= menu_def THEN Setup(g, menu_def)
                          ELSE g
    IN  IF ~net.is_hosting
        THEN CASE net.state = "kDiscovering"
                      /\ g.menu_def /= "msx_searching_screen_buttons" ->
                      Setup(g, "msx_searching_screen_buttons")
               [] net.state = "kDiscoveringPromptedUser"
                      /\ g.menu_def /= "msx_pleasewait_screen_buttons" ->
                      Setup(g, "msx_pleasewait_screen_buttons")
               [] net.state = "kDiscoveringWaitingForHost"
                      /\ g.menu_def /= "msx_connecting_screen_buttons" ->
                      Setup(g, "msx_connecting_screen_buttons")
               [] net.state = "kConnected"
                      /\ g.menu_def /= "msx_waitingforgame_screen_buttons" ->
                      Setup(g, "msx_waitingforgame_screen_buttons")
               [] OTHER -> g
        ELSE show("msx_waitingforplayers_screen_buttons")

\* ProcessMultiplayerMessages(), with the messages still to come
RECURSIVE ProcessMultiplayerMessages(_, _)
ProcessMultiplayerMessages(g, messages) ==
    IF messages = <<>> THEN g
    ELSE LET data_type == Head(messages)
         IN  ProcessMultiplayerMessages(
                 CASE data_type = "Data_PlayerAssignment" ->
                          StartMultiscreenGameAsClient(g)
                   [] data_type = "Data_EndGame" ->
                          TransitionToPieNoonState(g, "kMultiplayerWaiting")
                   [] OTHER -> g,
                 Tail(messages))

\* Run(), the frame up to the look at the connection in the states in
\* which the game is drawn
BeforeConnection(g, net) ==
    IF ~g.PIE_NOON_USES_GOOGLE_PLAY_GAMES THEN g
    ELSE ProcessMultiplayerMessages(
             IF g.state_ = "kMultiplayerWaiting"
             THEN ShowMultiplayerWaitingScreen(g, net) ELSE g,
             net.messages)

\* Run(), the look at the connection: the host of a multiscreen game that
\* lost its players, then the client that lost its host
Disconnected(g, conn) ==
    LET host ==
            IF g.is_multiscreen /\ g.state_ = "kPlaying" /\ ~conn.IsConnected
            THEN Setup(TransitionToPieNoonState(g, "kFinished"),
                       IF conn.HasError
                       THEN "msx_connection_lost_screen_buttons"
                       ELSE "msx_all_players_disconnected_screen_buttons")
            ELSE g
    IN  IF ~g.PIE_NOON_USES_GOOGLE_PLAY_GAMES THEN g
        ELSE IF host.state_ = "kMultiscreenClient" /\ ~conn.IsConnected
        THEN Setup(TransitionToPieNoonState(host, "kFinished"),
                   IF host.menu_def /= "multiplayer_client"
                   THEN "TitleScreenButtons"
                   ELSE IF conn.HasError
                   THEN "msx_connection_lost_screen_buttons"
                   ELSE "msx_host_disconnected_screen_buttons")
        ELSE host

Running == game.pc = "running" /\ ~game.exit_requested_

\* the end of a frame: a failed assertion has ended the run
EndFrame(g) ==
    IF g.assert_failed /= {} THEN [g EXCEPT !.pc = "aborted"] ELSE g

\* Run() up to its loop
RunStart ==
    /\ game.pc = "initialized"
    /\ game' = [TransitionToPieNoonState(game, "kLoadingInitialMaterials")
                   EXCEPT !.pc = "running"]
    /\ UNCHANGED <<loader, range_args, range_ret, curves, gui_state>>

\* the end of a frame of Run(): next_state =
\* UpdatePieNoonStateAndTransition() with what it reads in the state g
RunUpdate(g, net, running) ==
    \E in \in UpdateInputs(g, net, running) :
        game' = EndFrame(UpdatePieNoonStateAndTransition(g, in).g)

\* the look at the connection, and the rest of the frame
RunConnection(g, net, running) ==
    \E conn \in ConnectionInputs(g) :
        RunUpdate(Disconnected(g, conn), net, running)

\* a frame of Run() in a state in which the game is drawn
RunGameFrame ==
    /\ Running
    /\ game.state_ \in {"kJoining", "kPlaying", "kPaused",
                        "kMultiplayerWaiting", "kMultiscreenClient",
                        "kFinished"}
    /\ \E fade_done \in Read(~game.fader_finished) :
       \E net \in NetInputs(game) :
           RunConnection(BeforeConnection(Tick(game, fade_done), net), net,
                         ~game.fader_finished)
    /\ UNCHANGED <<loader, range_args, range_ret, curves, gui_state>>

\* gpg_multiplayer_ in a frame that reads no message
NoMessages(g) == CHOOSE net \in NetInputs(g) : net.messages = <<>>

\* a frame of Run() in kLoading or kLoadingInitialMaterials
RunLoadingFrame ==
    /\ Running
    /\ game.state_ \in {"kLoading", "kLoadingInitialMaterials"}
    /\ \E fade_done \in Read(~game.fader_finished) :
           RunUpdate(Tick(game, fade_done), NoMessages(game),
                     ~game.fader_finished)
    /\ UNCHANGED <<loader, range_args, range_ret, curves, gui_state>>

\* case kTutorial of Run() up to UpdatePieNoonStateAndTransition():
\* any_press is AnyControllerPresses(), opaque is
\* full_screen_fader_.Render(world_time)
TutorialSlide(g0, any_press, opaque) ==
    LET should_transition == g0.fader_finished /\ any_press
        g1 == IF should_transition
              THEN [g0 EXCEPT !.fader_finished = FALSE] ELSE g0
    IN  IF opaque THEN [g1 EXCEPT !.tutorial_slide_index_ = @ + 1] ELSE g1

\* a frame of Run() in kTutorial
RunTutorialFrame ==
    /\ Running
    /\ game.state_ = "kTutorial"
    /\ \E fade_done \in Read(~game.fader_finished), any_press \in BOOLEAN :
       \E opaque \in Read(/\ ~game.fader_finished
                          /\ ~fade_done
                          /\ game.tutorial_slide_index_ < MaxSlideIndex) :
           RunUpdate(TutorialSlide(Tick(game, fade_done), any_press, opaque),
                     NoMessages(game), ~game.fader_finished)
    /\ UNCHANGED <<loader, range_args, range_ret, curves, gui_state>>

\* the loop of Run() ends: exit was requested or escape went down
RunExit ==
    /\ game.pc = "running"
    /\ game' = [game EXCEPT !.pc = "exited"]
    /\ UNCHANGED <<loader, range_args, range_ret, curves, gui_state>>

\* a game of either build, whether or not the tutorial was shown before
InitGame ==
    /\ InitLoader
    /\ range_args = [a |-> RangeT(1, 0), b |-> RangeT(1, 0), x |-> 0]
    /\ range_ret = NoCall
    /\ curve_args = [c |-> QuadraticCurveDefault, x_limits |-> RangeT(1, 0)]
    /\ curve_ret = NoCurveCall
    /\ game \in {GameInitialized(gpg, displayed) :
                    gpg \in BOOLEAN, displayed \in {0, 1}}
    /\ gui_state = NoGuiCall

NextGame ==
    \/ RunStart
    \/ RunGameFrame
    \/ RunLoadingFrame
    \/ RunTutorialFrame
    \/ RunExit

SpecGame == InitGame /\ [][NextGame]_vars

\* ------------------------------------------------- claims about the game
\* C37: every call of TransitionToPieNoonState satisfies its assertion
\* state_ != next_state, in every state of the game the frames reach and
\* for every menu selection HandleMenuButtons processes, the cardboard and
\* the back button included.
C37_EveryTransitionChangesState ==
    "state_ != next_state" \notin game.assert_failed

\* C38: UpdatePieNoonState never reaches the assert(false) of its default
\* label in a state its switch handles, whatever the inputs, and a BACK
\* press in kMultiscreenClient resets the menu to the multiscreen menu and
\* returns the current state.
C38_UpdateNeverReachesDefault ==
    /\ "UpdatePieNoonState default" \notin game.assert_failed
    /\ game.back_press /= NoBackPress =>
           /\ game.back_press.ret = game.state_
           /\ game.menu_def = "msx_screen_buttons"

\* the characters a player controls
HumanControlled ==
    {i \in Characters : controller_type(game.controller[i]) /= "kTypeAI"}

\* C39: after any joins and transitions every character has one controller
\* whose character_id is the character's index, a controller with a
\* character_id is the controller of that character (so none is attached
\* to two characters and a free one has kNoCharacter), there is a free AI
\* controller for every character a player controls, the assertion that a
\* character ends up with an AI controller in case kFinished holds, and in
\* kFinished every character has one.
C39_ControllersConsistent ==
    /\ \A i \in Characters :
           /\ game.controller[i] \in Controllers
           /\ game.character_id[game.controller[i]] = i
    /\ \A c \in Controllers :
           game.character_id[c] /= kNoCharacter =>
               /\ game.character_id[c] \in Characters
               /\ game.controller[game.character_id[c]] = c
    /\ Cardinality(FreeAiControllers(game)) = Cardinality(HumanControlled)
    /\ "controller_type() == kTypeAI" \notin game.assert_failed
    /\ game.state_ = "kFinished" => HumanControlled = {}

\* a game in which players had joined every character has come to
\* kFinished, and the transition has handed every character back to an AI
C39_Witness ==
    /\ game.state_ = "kFinished"
    /\ game.pc = "running"
    /\ game.handed_back = MaxCharacters
    /\ \A c \in Controllers \ AiControllers :
           game.character_id[c] = kNoCharacter

\* ------------------------------------------------------------------ gui
\* InternalState of the immediate mode gui: the elements the layout pass
\* collected, the gamepad focus that persists between frames, and the
\* position of a call of NextInteractiveElement.  Run() makes an
\* InternalState per frame, runs the layout pass, StartRenderPass (which
\* navigates), the second pass and CheckGamePadFocus.

\* the most elements a layout pass collects
MaxElements == 3

kDummyId == "__null_id__"

\* the ids the user gives the elements, in the order of the layout
UserIds == <<"id0", "id1", "id2", "id3", "id4", "id5">>

Element(_id, interactive) == [id |-> _id, interactive |-> interactive]

\* what the layout pass can leave in elements_: CheckEvent marks an
\* element interactive, and an overlay group clears the mark again
Layouts ==
    UNION {{[j \in 1..n |-> Element(UserIds[j], flags[j])] :
               flags \in [1..n -> BOOLEAN]} : n \in 0..MaxElements}

\* the state between two frames; persistent_ outlives the InternalState
InternalState(gamepad_focus) ==
    [pc |-> "idle", elements_ |-> <<>>,
     gamepad_has_focus_element |-> FALSE,
     gamepad_focus |-> gamepad_focus,
     caller |-> "none", start |-> -1, direction |-> 1, i |-> -1,
     reads |-> {}, wraps |-> 0, ret |-> kDummyId]

\* entry of NextInteractiveElement(start, direction): i = start
CallNextInteractiveElement(g, caller, start, direction) ==
    [g EXCEPT !.pc = "for", !.caller = caller, !.start = start,
              !.direction = direction, !.i = start, !.reads = {},
              !.wraps = 0]

\* one iteration of the loop of NextInteractiveElement.  An index outside
\* the vector reads memory that is not an element: the flag read there is
\* either value and the id an indeterminate pointer, or the read faults.
NextInteractiveElementIteration(g) ==
    LET range == Len(g.elements_)
        j == g.i + g.direction
        i == IF j < 0 THEN range - 1 ELSE IF j >= range THEN -1 ELSE j
        g1 == [g EXCEPT !.i = i,
                        !.wraps = @ + (IF j < 0 \/ j >= range THEN 1 ELSE 0)]
        g2 == [g1 EXCEPT !.reads = @ \cup {i}]
    IN  IF i = g.start
        THEN {[g1 EXCEPT !.pc = "returned", !.ret = kDummyId]}
        ELSE IF i \in 0..(range - 1)
        THEN IF g.elements_[i + 1].interactive
             THEN {[g2 EXCEPT !.pc = "returned",
                              !.ret = g.elements_[i + 1].id]}
             ELSE {g2}
        ELSE {[g2 EXCEPT !.pc = "returned", !.ret = "indeterminate"],
              g2,
              [g2 EXCEPT !.pc = "fault"]}

\* the index of the element with the id of the gamepad focus, or -1
FocusIndex(g) ==
    IF \E j \in 1..Len(g.elements_) : g.elements_[j].id = g.gamepad_focus
    THEN (CHOOSE j \in 1..Len(g.elements_) :
              g.elements_[j].id = g.gamepad_focus) - 1
    ELSE -1

\* Run(), up to the end of the layout pass
GuiRun ==
    /\ gui_state.pc = "idle"
    /\ \E elements \in Layouts :
           gui_state' = [InternalState(gui_state.gamepad_focus) EXCEPT
                            !.pc = "StartRenderPass",
                            !.elements_ = elements]
    /\ UNCHANGED <<loader, range_args, range_ret, curves, game>>

\* StartRenderPass with CheckGamePadNavigation: dir is what CheckButtons
\* makes of the left and right keys
StartRenderPass ==
    /\ gui_state.pc = "StartRenderPass"
    /\ \E dir \in {-1, 0, 1} :
           gui_state' =
               IF Len(gui_state.elements_) = 0
                  \/ dir = 0
                  \/ FocusIndex(gui_state) = -1
               THEN [gui_state EXCEPT !.pc = "second pass"]
               ELSE CallNextInteractiveElement(gui_state,
                        "CheckGamePadNavigation", FocusIndex(gui_state),
                        dir)
    /\ UNCHANGED <<loader, range_args, range_ret, curves, game>>

NextInteractiveElement ==
    /\ gui_state.pc = "for"
    /\ gui_state' \in NextInteractiveElementIteration(gui_state)
    /\ UNCHANGED <<loader, range_args, range_ret, curves, game>>

\* the caller stores what NextInteractiveElement returned
GamepadFocusAssigned ==
    /\ gui_state.pc = "returned"
    /\ gui_state' =
           [gui_state EXCEPT
               !.gamepad_focus = gui_state.ret,
               !.pc = IF gui_state.caller = "CheckGamePadNavigation"
                      THEN "second pass" ELSE "idle"]
    /\ UNCHANGED <<loader, range_args, range_ret, curves, game>>

\* the second pass: CheckEvent of an interactive element with the id of
\* the gamepad focus sets gamepad_has_focus_element
SecondPass ==
    /\ gui_state.pc = "second pass"
    /\ gui_state' =
           [gui_state EXCEPT
               !.pc = "CheckGamePadFocus",
               !.gamepad_has_focus_element =
                   \E j \in 1..Len(gui_state.elements_) :
                       /\ gui_state.elements_[j].interactive
                       /\ gui_state.elements_[j].id = gui_state.gamepad_focus]
    /\ UNCHANGED <<loader, range_args, range_ret, curves, game>>

CheckGamePadFocus ==
    /\ gui_state.pc = "CheckGamePadFocus"
    /\ gui_state' =
           IF ~gui_state.gamepad_has_focus_element
           THEN CallNextInteractiveElement(gui_state, "CheckGamePadFocus",
                                           -1, 1)
           ELSE [gui_state EXCEPT !.pc = "idle"]
    /\ UNCHANGED <<loader, range_args, range_ret, curves, game>>

\* no gui has run yet: persistent_ as its constructor leaves it
InitGui ==
    /\ InitLoader
    /\ range_args = [a |-> RangeT(1, 0), b |-> RangeT(1, 0), x |-> 0]
    /\ range_ret = NoCall
    /\ curve_args = [c |-> QuadraticCurveDefault, x_limits |-> RangeT(1, 0)]
    /\ curve_ret = NoCurveCall
    /\ game = NoGame
    /\ gui_state = InternalState(kDummyId)

NextGui ==
    \/ GuiRun
    \/ StartRenderPass
    \/ NextInteractiveElement
    \/ GamepadFocusAssigned
    \/ SecondPass
    \/ CheckGamePadFocus

SpecGui == InitGui /\ [][NextGui]_vars

\* ---------------------------------------------------- claims about the gui
\* the indices NextInteractiveElement is to look at, in order: from start
\* in the direction, around the end of the vector once, start left out
SearchOrder(range, start, direction) ==
    IF start = -1
    THEN [k \in 1..range |-> IF direction = 1 THEN k - 1 ELSE range - k]
    ELSE [k \in 1..(range - 1) |->
             (start + k * direction + range) % range]

\* the id of the next interactive element in the direction, or kDummyId
NextInteractiveId(elements, start, direction) ==
    LET order == SearchOrder(Len(elements), start, direction)
        found == {k \in DOMAIN order : elements[order[k] + 1].interactive}
    IN  IF found = {} THEN kDummyId
        ELSE elements[order[CHOOSE k \in found :
                                \A m \in found : k <= m] + 1].id

\* C40: a call of NextInteractiveElement wraps around at most once, reads
\* elements_ only at indices of the vector, does not fault, and returns
\* the id of the next interactive element in its direction, or kDummyId
\* when it is back at start without one.
C40_NextInteractiveElementInRange ==
    gui_state.pc \in {"for", "returned", "fault"} =>
        /\ gui_state.wraps <= 1
        /\ gui_state.reads \subseteq 0..(Len(gui_state.elements_) - 1)
        /\ gui_state.pc /= "fault"
        /\ gui_state.pc = "returned" =>
               gui_state.ret = NextInteractiveId(gui_state.elements_,
                                   gui_state.start, gui_state.direction)

====
